---- MODULE Spec2Model ----
(***************************************************************************)
(* Kusanagi: a model of the report aggregator (export.rs), the ArgoCD      *)
(* issue classifier (argocd.rs) and the WebSocket notification session     *)
(* (ws.rs).  Each subsystem has its own variables and its own              *)
(* specification; a specification leaves the other subsystems' variables   *)
(* at their quiet values.                                                  *)
(***************************************************************************)
EXTENDS Integers, Sequences, FiniteSets, TLC

(***************************************************************************)
(* Bounds of the model.                                                    *)
(***************************************************************************)
\* Largest count a provider snapshot reports (nodes, apps, events, PVCs...).
MaxCount == 1
\* Longest application list get_argocd_status is run on.
MaxApps == 2
\* The notification session is followed for this many seconds.
MaxTime == 31
\* Seconds that may pass between NotificationSession::new() and started().
MaxStartDelay == 1
\* Text, binary and ping frames the client sends in one session.
MaxFrames == 1
\* Most entries in a pod's container_statuses.
MaxContainers == 2
\* Most entries in a pod's init_container_statuses.
MaxInitContainers == 1
\* format_duration is run on durations from this many seconds in the future
MaxSkewSeconds == 5
\* to this many seconds in the past (1d 1h 1m 1s).
MaxElapsedSeconds == 90061
\* Utc::now() is taken up to this many clock steps after the first timestamp.
MaxClockSteps == 3
\* Sources that never answer while a report is generated.
MaxUnresponsive == 1
\* Largest count a provider returns to a spawned poll.
MaxPollCount == 2
\* Threads calling into the telemetry queue.
MaxThreads == 2
\* queue_event calls made in one run.
MaxCalls == 11
\* force_flush calls that find the queue non-empty in one run.
MaxForceFlushes == 1

(***************************************************************************)
(* Program constants (ws.rs:10-15), in seconds.                            *)
(***************************************************************************)
HEARTBEAT_INTERVAL == 5
CLIENT_TIMEOUT == 10
ALERT_CHECK_INTERVAL == 30

VARIABLES
    \* ---- report aggregator (export.rs generate_report) ----
    rpc,        \* position of generate_report: "idle", "joining", "done"
    results,    \* the six futures of tokio::join!: provider -> outcome
    report,     \* the value generate_report returned (NoReturn before)
    unresponsive,   \* the sources that never answer a request
    \* ---- issue classifier (argocd.rs categorize_issue) ----
    cin,        \* the arguments of one categorize_issue call
    cout,       \* the IssueCategory it returned (NoReturn before)
    \* ---- application status (argocd.rs get_argocd_status) ----
    apps,       \* app_list.items as listed from the cluster
    response,   \* the Result get_argocd_status returned (NoReturn before)
    \* ---- notification session (ws.rs NotificationSession) ----
    status,     \* "Connecting" (created), "Active" (started), "Closed" (stopped)
    closed_by,  \* what stopped the actor: "none", "heartbeat", "close", "error"
    now,        \* Instant::now(), in seconds since the session was created
    hb,         \* NotificationSession.hb: instant of the last liveness signal
    last_argocd_issues,     \* NotificationSession.last_argocd_issues
    last_error_pods,        \* NotificationSession.last_error_pods
    last_warning_events,    \* NotificationSession.last_warning_events
    hb_due,     \* next tick of the run_interval(HEARTBEAT_INTERVAL) timer
    alert_due,  \* next tick of the run_interval(ALERT_CHECK_INTERVAL) timer
    tasks,      \* futures spawned with actix::spawn and not finished, by kind
    mailbox,    \* SendNotification messages do_send queued for the actor
    outbox,     \* the "type" of each text frame written with ctx.text, in order
    pings,      \* protocol pings sent with ctx.ping the client has not answered
    pongs,      \* protocol pongs sent with ctx.pong
    frames,     \* text, binary and ping frames received from the client
    stats_cmds, \* "stats" commands among the text frames received
    \* ---- pod error detector (pods.rs get_pods_status, nodes.rs) ----
    pod,        \* one Pod of the listed pods.items
    pod_info,   \* what the get_pods_status loop made of it (NoReturn before)
    node_verdict,   \* what is_pod_in_error returned for it (NoReturn before)
    \* ---- issue elapsed time (argocd.rs calculate_error_duration) ----
    duration,   \* the chrono::Duration format_duration is called on, in ms
    formatted,  \* the String format_duration returned (NoReturn before)
    app_status, \* the ApplicationStatus calculate_error_duration is called on
    utc_now,    \* Utc::now() of that call, in seconds since the Unix epoch
    error_times,    \* the (error_since, error_duration) it returned (NoReturn before)
    \* ---- one spawned poll of the session (ws.rs:82-86, 113-117) ----
    poll_in,    \* what the three providers return to the poll
    stats_sent, \* the SendNotifications a stats poll sent (NoReturn before)
    alerts_sent,    \* the SendNotifications an alert poll sent (NoReturn before)
    \* ---- telemetry event queue (telemetry.rs) ----
    tel_enabled,    \* TELEMETRY_ENABLED
    tel_sampling,   \* TELEMETRY_CONFIG.sample_rate < 1.0 (APM_SAMPLE_RATE)
    tpc,            \* where each thread stands in queue_event or force_flush
    config_lock,    \* the thread holding the TELEMETRY_CONFIG mutex, 0 if free
    queue_lock,     \* the thread holding the EVENT_QUEUE mutex, 0 if free
    event_queue,    \* EVENT_QUEUE: the events queued, numbered as pushed
    pushed,         \* events pushed so far
    calls,          \* queue_event calls made so far
    batches         \* every Vec handed to flush_events so far, in order

report_vars == <<rpc, results, report, unresponsive>>
classify_vars == <<cin, cout>>
argo_vars == <<apps, response>>
last_counts == <<last_argocd_issues, last_error_pods, last_warning_events>>
timer_vars == <<hb_due, alert_due>>
client_vars == <<frames, stats_cmds>>
session_vars ==
    <<status, closed_by, now, hb, last_counts, timer_vars, tasks, mailbox,
      outbox, pings, pongs, client_vars>>
pods_vars == <<pod, pod_info, node_verdict>>
duration_vars == <<duration, formatted, app_status, utc_now, error_times>>
poll_vars == <<poll_in, stats_sent, alerts_sent>>
telemetry_vars ==
    <<tel_enabled, tel_sampling, tpc, config_lock, queue_lock, event_queue,
      pushed, calls, batches>>
vars ==
    <<report_vars, classify_vars, argo_vars, session_vars, pods_vars,
      duration_vars, poll_vars, telemetry_vars>>

\* What an action of one subsystem leaves alone: the other subsystems.
not_report_vars ==
    <<classify_vars, argo_vars, session_vars, pods_vars, duration_vars,
      poll_vars, telemetry_vars>>
not_classify_vars ==
    <<report_vars, argo_vars, session_vars, pods_vars, duration_vars,
      poll_vars, telemetry_vars>>
not_argo_vars ==
    <<report_vars, classify_vars, session_vars, pods_vars, duration_vars,
      poll_vars, telemetry_vars>>
not_session_vars ==
    <<report_vars, classify_vars, argo_vars, pods_vars, duration_vars,
      poll_vars, telemetry_vars>>
not_pods_vars ==
    <<report_vars, classify_vars, argo_vars, session_vars, duration_vars,
      poll_vars, telemetry_vars>>
not_duration_vars ==
    <<report_vars, classify_vars, argo_vars, session_vars, pods_vars, poll_vars,
      telemetry_vars>>
not_poll_vars ==
    <<report_vars, classify_vars, argo_vars, session_vars, pods_vars,
      duration_vars, telemetry_vars>>
not_telemetry_vars ==
    <<report_vars, classify_vars, argo_vars, session_vars, pods_vars,
      duration_vars, poll_vars>>

(***************************************************************************)
(* Option<T> and Result<T, String>.                                        *)
(***************************************************************************)
None == [some |-> FALSE]
Some(v) == [some |-> TRUE, val |-> v]
Ok(v) == [ok |-> TRUE, val |-> v]
Err(e) == [ok |-> FALSE, err |-> e]

\* Result::ok(): Ok(v) -> Some(v), Err(_) -> None
ResultOk(r) == IF r.ok THEN Some(r.val) ELSE None

(***************************************************************************)
(* Snapshot providers as generate_report sees them: each returns           *)
(* Ok(snapshot) or Err(message).  Only the fields the summary reads are    *)
(* kept in a snapshot.                                                     *)
(***************************************************************************)
Providers == {"nodes", "argocd", "alerts", "events", "storage", "metrics"}

\* The error strings a provider may return.
ProviderErrors == {"timeout", "connection refused"}

Counts == 0..MaxCount

NodesPayloads ==
    { p \in [total_nodes : Counts, ready_nodes : Counts] :
        p.ready_nodes <= p.total_nodes }

ArgoPayloads ==
    { p \in [total : Counts, healthy : Counts, unhealthy : Counts] :
        p.healthy + p.unhealthy <= p.total }

\* A Vec<Alert> of a severity, by its length only.
AlertList == UNION {[1..n -> {"alert"}] : n \in Counts}

\* alertmanager.rs:121: total = critical.len() + warning.len() + info.len()
AlertsPayloads ==
    { [critical |-> c, warning |-> w, total |-> Len(c) + Len(w) + i] :
        c \in AlertList, w \in AlertList, i \in Counts }

EventsPayloads ==
    { p \in [total_events : Counts, warning_count : Counts] :
        p.warning_count <= p.total_events }

StoragePayloads == [pvc_count : Counts]

MetricsPayloads == [pod_count : Counts]

\* What the future of provider p may resolve to.  get_cluster_metrics has no
\* error path: every failed query degrades to 0.0 and it returns Ok.
Outcomes(p) ==
    CASE p = "nodes"   -> {Ok(v) : v \in NodesPayloads} \cup {Err(e) : e \in ProviderErrors}
      [] p = "argocd"  -> {Ok(v) : v \in ArgoPayloads} \cup {Err(e) : e \in ProviderErrors}
      [] p = "alerts"  -> {Ok(v) : v \in AlertsPayloads} \cup {Err(e) : e \in ProviderErrors}
      [] p = "events"  -> {Ok(v) : v \in EventsPayloads} \cup {Err(e) : e \in ProviderErrors}
      [] p = "storage" -> {Ok(v) : v \in StoragePayloads} \cup {Err(e) : e \in ProviderErrors}
      [] p = "metrics" -> {Ok(v) : v \in MetricsPayloads}

NotStarted == [state |-> "not_started"]
Pending == [state |-> "pending"]
Ready(o) == [state |-> "ready", out |-> o]
NoReturn == [returned |-> FALSE]
NoInput == [called |-> FALSE]

(***************************************************************************)
(* The quiet state of each subsystem: nothing called, nothing returned.    *)
(***************************************************************************)
ReportQuiet ==
    /\ rpc = "idle"
    /\ results = [p \in Providers |-> NotStarted]
    /\ report = NoReturn
    /\ unresponsive = {}

ClassifyQuiet == cin = NoInput /\ cout = NoReturn

ArgoQuiet == apps = <<>> /\ response = NoReturn

PodsQuiet == pod = NoInput /\ pod_info = NoReturn /\ node_verdict = NoReturn

DurationQuiet ==
    /\ duration = NoInput /\ formatted = NoReturn
    /\ app_status = NoInput /\ utc_now = 0 /\ error_times = NoReturn

PollQuiet ==
    poll_in = NoInput /\ stats_sent = NoReturn /\ alerts_sent = NoReturn

\* Telemetry as the process starts (telemetry.rs:14-19), no thread in it.
TelemetryQuiet ==
    /\ tel_enabled = TRUE /\ tel_sampling = FALSE
    /\ tpc = <<>>
    /\ config_lock = 0 /\ queue_lock = 0
    /\ event_queue = <<>> /\ pushed = 0 /\ calls = 0 /\ batches = <<>>

\* NotificationSession::new() (ws.rs:57-64), before the actor is started.
SessionQuiet ==
    /\ status = "Connecting"
    /\ closed_by = "none"
    /\ now = 0
    /\ hb = 0
    /\ last_argocd_issues = 0
    /\ last_error_pods = 0
    /\ last_warning_events = 0
    /\ hb_due = 0
    /\ alert_due = 0
    /\ tasks = [stats |-> 0, alerts |-> 0]
    /\ mailbox = <<>>
    /\ outbox = <<>>
    /\ pings = 0
    /\ pongs = 0
    /\ frames = 0
    /\ stats_cmds = 0

(***************************************************************************)
(* generate_report, after the join: the four `?` in source order, the two  *)
(* .ok(), the summary and the report.                                      *)
(***************************************************************************)
\* The summary with total_alerts recounted from the two lists it keeps.
ReportSummary_AlertsRecounted(nodes_data, argocd_data, alerts_data, events_data, storage_data) ==
    [ total_nodes     |-> nodes_data.total_nodes,
      ready_nodes     |-> nodes_data.ready_nodes,
      total_apps      |-> argocd_data.total,
      healthy_apps    |-> argocd_data.healthy,
      unhealthy_apps  |-> argocd_data.unhealthy,
      total_alerts    |-> IF alerts_data.some
                          THEN Len(alerts_data.val.critical) + Len(alerts_data.val.warning)
                          ELSE 0,
      critical_alerts |-> IF alerts_data.some THEN Len(alerts_data.val.critical) ELSE 0,
      warning_alerts  |-> IF alerts_data.some THEN Len(alerts_data.val.warning) ELSE 0,
      total_events    |-> events_data.total_events,
      warning_events  |-> events_data.warning_count,
      total_pvcs      |-> storage_data.pvc_count ]

ReportSummary(nodes_data, argocd_data, alerts_data, events_data, storage_data) ==
    [ total_nodes     |-> nodes_data.total_nodes,
      ready_nodes     |-> nodes_data.ready_nodes,
      total_apps      |-> argocd_data.total,
      healthy_apps    |-> argocd_data.healthy,
      unhealthy_apps  |-> argocd_data.unhealthy,
      total_alerts    |-> IF alerts_data.some THEN alerts_data.val.total ELSE 0,
      critical_alerts |-> IF alerts_data.some THEN Len(alerts_data.val.critical) ELSE 0,
      warning_alerts  |-> IF alerts_data.some THEN Len(alerts_data.val.warning) ELSE 0,
      total_events    |-> events_data.total_events,
      warning_events  |-> events_data.warning_count,
      total_pvcs      |-> storage_data.pvc_count ]

ClusterReport(nodes_data, argocd_data, alerts_data, events_data, storage_data, metrics_data) ==
    [ cluster_name |-> "k3s-cluster",
      summary      |-> ReportSummary(nodes_data, argocd_data, alerts_data,
                                     events_data, storage_data),
      nodes        |-> nodes_data,
      argocd_apps  |-> argocd_data,
      alerts       |-> alerts_data,
      events       |-> events_data,
      storage      |-> storage_data,
      metrics      |-> metrics_data ]

\* Variants of AssembleReport with one plausible slip each.
\* The events source treated as optional: a failure degrades to an empty snapshot.
AssembleReport_EventsOptional(r) ==
    IF ~r["nodes"].ok THEN Err("Failed to get nodes: " \o r["nodes"].err)
    ELSE IF ~r["argocd"].ok THEN Err("Failed to get ArgoCD status: " \o r["argocd"].err)
    ELSE IF ~r["storage"].ok THEN Err("Failed to get storage: " \o r["storage"].err)
    ELSE Ok(ClusterReport(r["nodes"].val, r["argocd"].val, ResultOk(r["alerts"]),
                          IF r["events"].ok THEN r["events"].val
                          ELSE [total_events |-> 0, warning_count |-> 0],
                          r["storage"].val, ResultOk(r["metrics"])))

\* The alerts source treated as required.
AssembleReport_AlertsRequired(r) ==
    IF ~r["nodes"].ok THEN Err("Failed to get nodes: " \o r["nodes"].err)
    ELSE IF ~r["argocd"].ok THEN Err("Failed to get ArgoCD status: " \o r["argocd"].err)
    ELSE IF ~r["alerts"].ok THEN Err("Failed to get alerts: " \o r["alerts"].err)
    ELSE IF ~r["events"].ok THEN Err("Failed to get events: " \o r["events"].err)
    ELSE IF ~r["storage"].ok THEN Err("Failed to get storage: " \o r["storage"].err)
    ELSE Ok(ClusterReport(r["nodes"].val, r["argocd"].val, ResultOk(r["alerts"]),
                          r["events"].val, r["storage"].val, ResultOk(r["metrics"])))

\* The events result unwrapped before the ArgoCD result.
AssembleReport_EventsFirst(r) ==
    IF ~r["nodes"].ok THEN Err("Failed to get nodes: " \o r["nodes"].err)
    ELSE IF ~r["events"].ok THEN Err("Failed to get events: " \o r["events"].err)
    ELSE IF ~r["argocd"].ok THEN Err("Failed to get ArgoCD status: " \o r["argocd"].err)
    ELSE IF ~r["storage"].ok THEN Err("Failed to get storage: " \o r["storage"].err)
    ELSE Ok(ClusterReport(r["nodes"].val, r["argocd"].val, ResultOk(r["alerts"]),
                          r["events"].val, r["storage"].val, ResultOk(r["metrics"])))

\* r: provider -> Result, the tuple tokio::join! produced.
AssembleReport(r) ==
    IF ~r["nodes"].ok THEN Err("Failed to get nodes: " \o r["nodes"].err)
    ELSE IF ~r["argocd"].ok THEN Err("Failed to get ArgoCD status: " \o r["argocd"].err)
    ELSE IF ~r["events"].ok THEN Err("Failed to get events: " \o r["events"].err)
    ELSE IF ~r["storage"].ok THEN Err("Failed to get storage: " \o r["storage"].err)
    ELSE Ok(ClusterReport(r["nodes"].val, r["argocd"].val, ResultOk(r["alerts"]),
                          r["events"].val, r["storage"].val, ResultOk(r["metrics"])))

(***************************************************************************)
(* Report aggregator: actions.                                             *)
(***************************************************************************)
ReportInit ==
    /\ ReportQuiet /\ ClassifyQuiet /\ ArgoQuiet /\ SessionQuiet /\ PodsQuiet
    /\ DurationQuiet
    /\ PollQuiet /\ TelemetryQuiet

\* generate_report() is called: tokio::join! polls the six futures.
GenerateReportCall ==
    /\ rpc = "idle"
    /\ rpc' = "joining"
    /\ results' = [p \in Providers |-> Pending]
    /\ report' = NoReturn
    /\ UNCHANGED <<unresponsive, not_report_vars>>

\* One provider future resolves, in any order: its source answered, or the
\* call failed.
ProviderResolves(p) ==
    /\ rpc = "joining"
    /\ results[p] = Pending
    /\ p \notin unresponsive
    /\ \E o \in Outcomes(p) : results' = [results EXCEPT ![p] = Ready(o)]
    /\ UNCHANGED <<rpc, report, unresponsive, not_report_vars>>

\* The join completing as soon as the four required futures are ready, the
\* optional ones not awaited.
GenerateReportReturn_RequiredOnly ==
    /\ rpc = "joining"
    /\ \A p \in {"nodes", "argocd", "events", "storage"} : results[p].state = "ready"
    /\ report' = [returned |-> TRUE,
                  result |-> AssembleReport(
                      [p \in Providers |->
                          IF results[p].state = "ready" THEN results[p].out
                          ELSE Err("not awaited")])]
    /\ rpc' = "done"
    /\ UNCHANGED <<results, unresponsive, not_report_vars>>

\* All six futures are ready: the join completes and the rest of the body runs.
GenerateReportReturn ==
    /\ rpc = "joining"
    /\ \A p \in Providers : results[p].state = "ready"
    /\ report' = [returned |-> TRUE,
                  result |-> AssembleReport([p \in Providers |-> results[p].out])]
    /\ rpc' = "done"
    /\ UNCHANGED <<results, unresponsive, not_report_vars>>

\* The caller drops the result; the next request starts from scratch.
ReportDropped ==
    /\ rpc = "done"
    /\ rpc' = "idle"
    /\ results' = [p \in Providers |-> NotStarted]
    /\ report' = NoReturn
    /\ UNCHANGED <<unresponsive, not_report_vars>>

ReportNext ==
    \/ GenerateReportCall
    \/ \E p \in Providers : ProviderResolves(p)
    \/ GenerateReportReturn
    \/ ReportDropped

SpecReport == ReportInit /\ [][ReportNext]_vars

(***************************************************************************)
(* generate_report with sources that may never answer.  The two HTTP       *)
(* providers put a 10 s timeout on each request (alertmanager.rs:61,       *)
(* prometheus.rs:57); the four Kubernetes providers await the API server   *)
(* without one (nodes.rs:52-67, argocd.rs:177-197, events.rs, storage.rs). *)
(***************************************************************************)
\* The providers whose requests carry a timeout.
TimedProviders == {"alerts", "metrics"}

\* What a provider whose every request timed out returns: get_active_alerts
\* the error of its request, get_cluster_metrics Ok with every query
\* degraded to 0 (prometheus.rs:110-137).
TimedOut(p) ==
    IF p = "alerts" THEN Err("timeout") ELSE Ok([pod_count |-> 0])

\* The request timeout of a provider's pending call expires.
ProviderTimesOut(p) ==
    /\ rpc = "joining"
    /\ p \in TimedProviders
    /\ results[p] = Pending
    /\ results' = [results EXCEPT ![p] = Ready(TimedOut(p))]
    /\ UNCHANGED <<rpc, report, unresponsive, not_report_vars>>

\* Up to MaxUnresponsive of the six sources never answer.
LiveInit ==
    /\ rpc = "idle"
    /\ results = [p \in Providers |-> NotStarted]
    /\ report = NoReturn
    /\ unresponsive \in {u \in SUBSET Providers : Cardinality(u) <= MaxUnresponsive}
    /\ ClassifyQuiet /\ ArgoQuiet /\ SessionQuiet /\ PodsQuiet /\ DurationQuiet
    /\ PollQuiet /\ TelemetryQuiet

LiveNext ==
    \/ GenerateReportCall
    \/ \E p \in Providers : ProviderResolves(p)
    \/ \E p \in TimedProviders : ProviderTimesOut(p)
    \/ GenerateReportReturn
    \/ ReportDropped

\* The runtime keeps polling the joined futures: a source that answers is
\* read, a timer that is armed fires, and a completed join returns.
LiveFairness ==
    /\ \A p \in Providers : WF_vars(ProviderResolves(p))
    /\ \A p \in TimedProviders : WF_vars(ProviderTimesOut(p))
    /\ WF_vars(GenerateReportReturn)

SpecReportLive == LiveInit /\ [][LiveNext]_vars /\ LiveFairness


(***************************************************************************)
(* Strings: str::to_lowercase and str::contains over ASCII.                *)
(***************************************************************************)
UpperLetters == "ABCDEFGHIJKLMNOPQRSTUVWXYZ"
LowerLetters == "abcdefghijklmnopqrstuvwxyz"
CharAt(s, i) == SubSeq(s, i, i)

ToLowerChar(c) ==
    IF \E i \in 1..26 : CharAt(UpperLetters, i) = c
    THEN CharAt(LowerLetters, CHOOSE i \in 1..26 : CharAt(UpperLetters, i) = c)
    ELSE c

ToUpperChar(c) ==
    IF \E i \in 1..26 : CharAt(LowerLetters, i) = c
    THEN CharAt(UpperLetters, CHOOSE i \in 1..26 : CharAt(LowerLetters, i) = c)
    ELSE c

RECURSIVE ToLowercase(_)
ToLowercase(s) ==
    IF Len(s) = 0 THEN ""
    ELSE ToLowerChar(CharAt(s, 1)) \o ToLowercase(SubSeq(s, 2, Len(s)))

Contains(s, pat) ==
    \E i \in 1..(Len(s) - Len(pat) + 1) : SubSeq(s, i, i + Len(pat) - 1) = pat

\* Every spelling of w that differs from it only in the case of its letters.
RECURSIVE CaseVariants(_)
CaseVariants(w) ==
    IF Len(w) = 0 THEN {""}
    ELSE { c \o rest : c \in {ToLowerChar(CharAt(w, 1)), ToUpperChar(CharAt(w, 1))},
                       rest \in CaseVariants(SubSeq(w, 2, Len(w))) }

(***************************************************************************)
(* categorize_issue (argocd.rs:351-394).                                   *)
(***************************************************************************)
IssueCategory == {"RealIssue", "UpgradeAvailable", "Progressing"}

\* The message rule without its is_helm_chart test.
categorize_issue_MessageAlone(health_status, sync_status, message, is_helm_chart, target_revision) ==
    IF health_status = "Progressing" THEN "Progressing"
    ELSE IF health_status = "Healthy" /\ sync_status = "OutOfSync" THEN
        IF /\ target_revision.some
           /\ \/ target_revision.val = "*"
              \/ ToLowercase(target_revision.val) = "latest"
              \/ ToLowercase(target_revision.val) = "head"
        THEN "UpgradeAvailable"
        ELSE IF /\ message.some
                /\ LET msg_lower == ToLowercase(message.val) IN
                     \/ Contains(msg_lower, "successfully synced")
                     \/ Contains(msg_lower, "no more tasks")
                     \/ Contains(msg_lower, "all tasks run")
        THEN "UpgradeAvailable"
        ELSE IF is_helm_chart THEN "UpgradeAvailable"
        ELSE "RealIssue"
    ELSE "RealIssue"

\* The revision compared without lowercasing it.
categorize_issue_CaseSensitive(health_status, sync_status, message, is_helm_chart, target_revision) ==
    IF health_status = "Progressing" THEN "Progressing"
    ELSE IF health_status = "Healthy" /\ sync_status = "OutOfSync" THEN
        IF /\ target_revision.some
           /\ \/ target_revision.val = "*"
              \/ target_revision.val = "latest"
              \/ target_revision.val = "head"
        THEN "UpgradeAvailable"
        ELSE IF /\ message.some
                /\ LET msg_lower == ToLowercase(message.val) IN
                     \/ Contains(msg_lower, "successfully synced")
                     \/ Contains(msg_lower, "no more tasks")
                     \/ Contains(msg_lower, "all tasks run")
                /\ is_helm_chart
        THEN "UpgradeAvailable"
        ELSE IF is_helm_chart THEN "UpgradeAvailable"
        ELSE "RealIssue"
    ELSE "RealIssue"

\* The out-of-sync upgrade rules tried before the Progressing rule, for any
\* health.
categorize_issue_UpgradeFirst(health_status, sync_status, message, is_helm_chart, target_revision) ==
    IF sync_status = "OutOfSync"
       /\ \/ /\ target_revision.some
             /\ \/ target_revision.val = "*"
                \/ ToLowercase(target_revision.val) = "latest"
                \/ ToLowercase(target_revision.val) = "head"
          \/ is_helm_chart
    THEN "UpgradeAvailable"
    ELSE IF health_status = "Progressing" THEN "Progressing"
    ELSE "RealIssue"

categorize_issue(health_status, sync_status, message, is_helm_chart, target_revision) ==
    \* If app is progressing, it's just in progress
    IF health_status = "Progressing" THEN "Progressing"
    \* If app is healthy but out of sync, check if it's likely an upgrade
    ELSE IF health_status = "Healthy" /\ sync_status = "OutOfSync" THEN
        IF /\ target_revision.some
           /\ \/ target_revision.val = "*"
              \/ ToLowercase(target_revision.val) = "latest"
              \/ ToLowercase(target_revision.val) = "head"
        THEN "UpgradeAvailable"
        ELSE IF /\ message.some
                /\ LET msg_lower == ToLowercase(message.val) IN
                     \/ Contains(msg_lower, "successfully synced")
                     \/ Contains(msg_lower, "no more tasks")
                     \/ Contains(msg_lower, "all tasks run")
                /\ is_helm_chart
        THEN "UpgradeAvailable"
        ELSE IF is_helm_chart THEN "UpgradeAvailable"
        ELSE "RealIssue"
    \* Everything else is a real issue
    ELSE "RealIssue"

(***************************************************************************)
(* The arguments categorize_issue is checked on.                           *)
(***************************************************************************)
HealthStatuses ==
    {"Healthy", "Progressing", "Degraded", "Missing", "Suspended", "Unknown",
     "progressing", "healthy"}
SyncStatuses == {"Synced", "OutOfSync", "Unknown", "outofsync"}
Messages ==
    {"successfully synced (all tasks run)", "Successfully Synced",
     "No More Tasks", "ALL TASKS RUN", "one or more objects failed to apply", ""}
WildcardRevisions == {"*"} \cup CaseVariants("latest") \cup CaseVariants("head")
Revisions ==
    WildcardRevisions \cup CaseVariants("main") \cup CaseVariants("heads")
        \cup {"1.2.3", "**", "", "lates", "*latest"}
OptionOf(S) == {None} \cup {Some(v) : v \in S}

ClassifyInputs ==
    [ health_status   : HealthStatuses,
      sync_status     : SyncStatuses,
      message         : OptionOf(Messages),
      is_helm_chart   : BOOLEAN,
      target_revision : OptionOf(Revisions) ]

ClassifyInit ==
    /\ cin \in ClassifyInputs /\ cout = NoReturn
    /\ ReportQuiet /\ ArgoQuiet /\ SessionQuiet /\ PodsQuiet /\ DurationQuiet
    /\ PollQuiet /\ TelemetryQuiet

\* One call of categorize_issue on the arguments drawn in ClassifyInit.
Classify ==
    /\ cout = NoReturn
    /\ cout' = [returned |-> TRUE,
                result |-> categorize_issue(cin.health_status, cin.sync_status,
                                            cin.message, cin.is_helm_chart,
                                            cin.target_revision)]
    /\ UNCHANGED <<cin, not_classify_vars>>

ClassifyNext == Classify

SpecClassify == ClassifyInit /\ [][ClassifyNext]_vars

(***************************************************************************)
(* get_argocd_status (argocd.rs:176-336): the loop over app_list.items.    *)
(* An application carries the status and spec fields the loop reads, each  *)
(* optional as in the custom resource.                                     *)
(***************************************************************************)
AppHealth == {None, Some("Healthy"), Some("Degraded"), Some("Progressing")}
AppSync == {None, Some("Synced"), Some("OutOfSync")}
\* spec.source: absent, a helm chart pinned to a version, a git path on HEAD.
AppSources ==
    { None,
      Some([chart |-> Some("nginx"), target_revision |-> Some("1.2.3")]),
      Some([chart |-> None, target_revision |-> Some("HEAD")]) }
AppShapes ==
    [ health : AppHealth, sync : AppSync, source : AppSources,
      health_message : {None}, op_message : {None, Some("successfully synced")} ]
\* metadata.name of the i-th listed application: names are unique within the
\* argocd namespace the list is taken from.
AppName(i) == "app" \o ToString(i)
\* app_list.items: every list of up to max applications.
AppLists(max) == UNION { [1..n -> AppShapes] : n \in 0..max }

\* and_then / unwrap_or_else on an optional string field.
UnwrapOr(opt, default) == IF opt.some THEN opt.val ELSE default
\* Option::or_else
OrElse(opt, other) == IF opt.some THEN opt ELSE other

\* has_issue without its sync_status == "Unknown" clause.
HasIssue_NoUnknownSync(health_status, sync_status) ==
    health_status # "Healthy" \/ sync_status = "OutOfSync"

\* argocd.rs:277-279
HasIssue(health_status, sync_status) ==
    \/ health_status # "Healthy"
    \/ sync_status = "OutOfSync"
    \/ sync_status = "Unknown"

EmptyResponse(total) ==
    [ total |-> total, healthy |-> 0, unhealthy |-> 0, synced |-> 0,
      out_of_sync |-> 0, unknown |-> 0, progressing |-> 0,
      upgrades_available |-> 0,
      apps_with_issues |-> <<>>, apps_with_upgrades |-> <<>> ]

\* One iteration of the loop body (argocd.rs:214-336) on application app,
\* whose metadata.name is name.
ProcessApp(resp, app, name) ==
    LET health_status == UnwrapOr(app.health, "Unknown")
        sync_status == UnwrapOr(app.sync, "Unknown")
        is_helm_chart == app.source.some /\ app.source.val.chart.some
        target_revision ==
            IF app.source.some THEN app.source.val.target_revision ELSE None
        counted ==
            [resp EXCEPT
                !.healthy = @ + (IF health_status = "Healthy" THEN 1 ELSE 0),
                !.progressing = @ + (IF health_status = "Progressing" THEN 1 ELSE 0),
                !.unknown = @ + (IF health_status = "Unknown" THEN 1 ELSE 0),
                !.unhealthy = @ + (IF health_status \notin
                                        {"Healthy", "Progressing", "Unknown"}
                                   THEN 1 ELSE 0),
                !.synced = @ + (IF sync_status = "Synced" THEN 1 ELSE 0),
                !.out_of_sync = @ + (IF sync_status = "OutOfSync" THEN 1 ELSE 0)]
        message == OrElse(app.health_message, app.op_message)
        category == categorize_issue(health_status, sync_status, message,
                                     is_helm_chart, target_revision)
        app_issue ==
            [ name |-> name,
              health_status |-> health_status,
              sync_status |-> sync_status,
              message |-> message,
              category |-> category,
              target_revision |-> target_revision,
              is_helm_chart |-> is_helm_chart,
              can_sync |-> health_status \in {"Healthy", "Progressing"},
              argocd_url |-> "https://argocd.p.zacharie.org/applications/argocd/"
                                \o name ]
    IN  IF ~HasIssue(health_status, sync_status) THEN counted
        ELSE IF category = "UpgradeAvailable"
        THEN [counted EXCEPT !.upgrades_available = @ + 1,
                             !.apps_with_upgrades = Append(@, app_issue)]
        ELSE [counted EXCEPT !.apps_with_issues = Append(@, app_issue)]

RECURSIVE ProcessApps(_, _, _)
ProcessApps(resp, items, i) ==
    IF i > Len(items) THEN resp
    ELSE ProcessApps(ProcessApp(resp, items[i], AppName(i)), items, i + 1)

ArgoStatusResponse(items) == ProcessApps(EmptyResponse(Len(items)), items, 1)

ArgoInit ==
    /\ apps \in AppLists(MaxApps) /\ response = NoReturn
    /\ ReportQuiet /\ ClassifyQuiet /\ SessionQuiet /\ PodsQuiet /\ DurationQuiet
    /\ PollQuiet /\ TelemetryQuiet

\* get_argocd_status lists the applications and walks them.
GetArgocdStatus ==
    /\ response = NoReturn
    /\ response' = [returned |-> TRUE, result |-> Ok(ArgoStatusResponse(apps))]
    /\ UNCHANGED <<apps, not_argo_vars>>

\* Client::try_default() fails (argocd.rs:177-179).
GetArgocdStatusNoClient ==
    /\ response = NoReturn
    /\ response' = [returned |-> TRUE,
                    result |-> Err("Failed to create Kubernetes client: "
                                   \o "connection refused")]
    /\ UNCHANGED <<apps, not_argo_vars>>

\* apps_api.list() fails (argocd.rs:194-197).
GetArgocdStatusListFails ==
    /\ response = NoReturn
    /\ response' = [returned |-> TRUE,
                    result |-> Err("Failed to list ArgoCD applications: "
                                   \o "timeout")]
    /\ UNCHANGED <<apps, not_argo_vars>>

ArgoNext ==
    \/ GetArgocdStatus
    \/ GetArgocdStatusNoClient
    \/ GetArgocdStatusListFails

SpecArgo == ArgoInit /\ [][ArgoNext]_vars

(***************************************************************************)
(* Issue elapsed time (argocd.rs:447-495): format_duration on a            *)
(* chrono::Duration, kept in milliseconds, and calculate_error_duration on *)
(* an ApplicationStatus whose timestamps are RFC 3339 strings without      *)
(* fractional seconds.                                                     *)
(***************************************************************************)
\* Duration::num_seconds: whole seconds, rounded towards zero.
NumSeconds(d) == IF d >= 0 THEN d \div 1000 ELSE -((-d) \div 1000)

\* format_duration with the hours not reduced to the hours of the last day.
format_duration_HoursOfAll(d) ==
    LET total_seconds == NumSeconds(d)
        days == total_seconds \div 86400
        hours == total_seconds \div 3600
        minutes == (total_seconds % 3600) \div 60
    IN  IF total_seconds < 0 THEN "just now"
        ELSE IF days > 0 THEN ToString(days) \o "d " \o ToString(hours) \o "h"
        ELSE IF hours > 0 THEN ToString(hours) \o "h " \o ToString(minutes) \o "m"
        ELSE IF minutes > 0 THEN ToString(minutes) \o "m"
        ELSE ToString(total_seconds) \o "s"

\* format_duration (argocd.rs:475-495)
format_duration(d) ==
    LET total_seconds == NumSeconds(d)
        days == total_seconds \div 86400
        hours == (total_seconds % 86400) \div 3600
        minutes == (total_seconds % 3600) \div 60
    IN  IF total_seconds < 0 THEN "just now"
        ELSE IF days > 0 THEN ToString(days) \o "d " \o ToString(hours) \o "h"
        ELSE IF hours > 0 THEN ToString(hours) \o "h " \o ToString(minutes) \o "m"
        ELSE IF minutes > 0 THEN ToString(minutes) \o "m"
        ELSE ToString(total_seconds) \o "s"

\* The durations format_duration is checked on: every half second from
\* MaxSkewSeconds before now to MaxElapsedSeconds after.
Durations == {500 * k : k \in (-2 * MaxSkewSeconds)..(2 * MaxElapsedSeconds)}

\* Decimal digits of a timestamp.
Digits == "0123456789"
DigitValue(c) == (CHOOSE i \in 1..10 : CharAt(Digits, i) = c) - 1
AllDigits(s) ==
    \A i \in 1..Len(s) : \E d \in 1..10 : CharAt(Digits, d) = CharAt(s, i)
RECURSIVE ParseNumber(_)
ParseNumber(s) ==
    IF Len(s) = 0 THEN 0
    ELSE 10 * ParseNumber(SubSeq(s, 1, Len(s) - 1)) + DigitValue(CharAt(s, Len(s)))

\* The proleptic Gregorian calendar chrono dates are in.
IsLeapYear(y) == y % 4 = 0 /\ (y % 100 # 0 \/ y % 400 = 0)
DaysInMonth(y, m) ==
    IF m = 2 THEN (IF IsLeapYear(y) THEN 29 ELSE 28)
    ELSE IF m \in {4, 6, 9, 11} THEN 30 ELSE 31
\* Days from 1970-01-01 to the date y-m-d.
DaysFromCivil(y, m, d) ==
    LET yy == IF m <= 2 THEN y - 1 ELSE y
        era == yy \div 400
        yoe == yy - era * 400
        doy == (153 * (IF m > 2 THEN m - 3 ELSE m + 9) + 2) \div 5 + d - 1
        doe == yoe * 365 + yoe \div 4 - yoe \div 100 + doy
    IN  era * 146097 + doe - 719468

\* DateTime::parse_from_rfc3339(s), then with_timezone(&Utc): Ok(the instant,
\* in seconds since the Unix epoch) for "YYYY-MM-DDTHH:MM:SS" followed by "Z"
\* or a "+HH:MM" / "-HH:MM" offset, Err for anything else.
parse_from_rfc3339(s) ==
    IF /\ Len(s) \in {20, 25}
       /\ AllDigits(SubSeq(s, 1, 4)) /\ CharAt(s, 5) = "-"
       /\ AllDigits(SubSeq(s, 6, 7)) /\ CharAt(s, 8) = "-"
       /\ AllDigits(SubSeq(s, 9, 10)) /\ CharAt(s, 11) = "T"
       /\ AllDigits(SubSeq(s, 12, 13)) /\ CharAt(s, 14) = ":"
       /\ AllDigits(SubSeq(s, 15, 16)) /\ CharAt(s, 17) = ":"
       /\ AllDigits(SubSeq(s, 18, 19))
       /\ IF Len(s) = 20 THEN CharAt(s, 20) = "Z"
          ELSE /\ CharAt(s, 20) \in {"+", "-"}
               /\ AllDigits(SubSeq(s, 21, 22)) /\ CharAt(s, 23) = ":"
               /\ AllDigits(SubSeq(s, 24, 25))
    THEN LET year == ParseNumber(SubSeq(s, 1, 4))
             month == ParseNumber(SubSeq(s, 6, 7))
             day == ParseNumber(SubSeq(s, 9, 10))
             hour == ParseNumber(SubSeq(s, 12, 13))
             minute == ParseNumber(SubSeq(s, 15, 16))
             second == ParseNumber(SubSeq(s, 18, 19))
             offset ==
                IF Len(s) = 20 THEN 0
                ELSE (IF CharAt(s, 20) = "-" THEN -1 ELSE 1)
                        * (3600 * ParseNumber(SubSeq(s, 21, 22))
                           + 60 * ParseNumber(SubSeq(s, 24, 25)))
             in_range ==
                /\ month \in 1..12 /\ day \in 1..DaysInMonth(year, month)
                /\ hour <= 23 /\ minute <= 59 /\ second <= 59
                /\ Len(s) = 25 =>
                        /\ ParseNumber(SubSeq(s, 21, 22)) <= 23
                        /\ ParseNumber(SubSeq(s, 24, 25)) <= 59
         IN  IF in_range
             THEN Ok(86400 * DaysFromCivil(year, month, day) + 3600 * hour
                        + 60 * minute + second - offset)
             ELSE Err("input is out of range")
    ELSE Err("input contains invalid characters")

\* calculate_error_duration that gives no error_since when the timestamp does
\* not parse.
calculate_error_duration_DropsRaw(st, t) ==
    IF st.operation_state.some /\ st.operation_state.val.started_at.some
    THEN LET started == st.operation_state.val.started_at.val
             started_time == parse_from_rfc3339(started)
         IN  IF started_time.ok
             THEN <<Some(started), Some(format_duration(1000 * (t - started_time.val)))>>
             ELSE <<None, None>>
    ELSE IF st.reconciled_at.some
    THEN LET reconciled == st.reconciled_at.val
             reconciled_time == parse_from_rfc3339(reconciled)
         IN  IF reconciled_time.ok
             THEN <<Some(reconciled),
                    Some(format_duration(1000 * (t - reconciled_time.val)))>>
             ELSE <<None, None>>
    ELSE <<None, None>>

\* calculate_error_duration (argocd.rs:447-472): (error_since, error_duration)
\* of status st at the instant t.
calculate_error_duration(st, t) ==
    IF st.operation_state.some /\ st.operation_state.val.started_at.some
    THEN LET started == st.operation_state.val.started_at.val
             started_time == parse_from_rfc3339(started)
         IN  IF started_time.ok
             THEN <<Some(started), Some(format_duration(1000 * (t - started_time.val)))>>
             ELSE <<Some(started), None>>
    ELSE IF st.reconciled_at.some
    THEN LET reconciled == st.reconciled_at.val
             reconciled_time == parse_from_rfc3339(reconciled)
         IN  IF reconciled_time.ok
             THEN <<Some(reconciled),
                    Some(format_duration(1000 * (t - reconciled_time.val)))>>
             ELSE <<Some(reconciled), None>>
    ELSE <<None, None>>

\* The timestamps an application's status carries: two instants in UTC, one
\* with an offset, and four strings that are no RFC 3339 timestamps.
Timestamps ==
    {"2024-03-01T00:00:00Z", "2024-02-29T23:59:15Z", "2024-02-29T12:00:00+02:00",
     "2024-02-30T00:00:00Z", "2024-03-01 00:00", "yesterday", ""}

\* OperationState and ApplicationStatus: the fields calculate_error_duration
\* reads.
OperationStates == [started_at : OptionOf(Timestamps)]
ApplicationStatuses ==
    [operation_state : OptionOf(OperationStates),
     reconciled_at : OptionOf(Timestamps)]

\* The instants Utc::now() is taken at: ClockStep seconds apart, from one
\* step before 2024-03-01T00:00:00Z on.
ClockStep == 30599
Clocks ==
    {parse_from_rfc3339("2024-03-01T00:00:00Z").val + k * ClockStep :
        k \in -1..MaxClockSteps}

FormatInit ==
    /\ duration \in Durations /\ formatted = NoReturn
    /\ app_status = NoInput /\ utc_now = 0 /\ error_times = NoReturn
    /\ ReportQuiet /\ ClassifyQuiet /\ ArgoQuiet /\ SessionQuiet /\ PodsQuiet
    /\ PollQuiet /\ TelemetryQuiet

\* One call of format_duration on the duration drawn in FormatInit.
FormatDuration ==
    /\ formatted = NoReturn
    /\ formatted' = [returned |-> TRUE, result |-> format_duration(duration)]
    /\ UNCHANGED <<duration, app_status, utc_now, error_times, not_duration_vars>>

FormatNext == FormatDuration

SpecFormat == FormatInit /\ [][FormatNext]_vars

DurationInit ==
    /\ app_status \in ApplicationStatuses /\ utc_now \in Clocks
    /\ error_times = NoReturn
    /\ duration = NoInput /\ formatted = NoReturn
    /\ ReportQuiet /\ ClassifyQuiet /\ ArgoQuiet /\ SessionQuiet /\ PodsQuiet
    /\ PollQuiet /\ TelemetryQuiet

\* get_argocd_status calls calculate_error_duration(&status, &now) for an
\* application with an issue (argocd.rs:303).
CalculateErrorDuration ==
    /\ error_times = NoReturn
    /\ LET r == calculate_error_duration(app_status, utc_now)
       IN  error_times' = [returned |-> TRUE, error_since |-> r[1],
                           error_duration |-> r[2]]
    /\ UNCHANGED <<duration, formatted, app_status, utc_now, not_duration_vars>>

DurationNext == CalculateErrorDuration

SpecDuration == DurationInit /\ [][DurationNext]_vars

(***************************************************************************)
(* Notification session (ws.rs).  Time is in whole seconds; the two        *)
(* run_interval timers fire on schedule: time does not pass a due tick.    *)
(* Timestamps inside messages (chrono::Utc::now()) are left out.           *)
(***************************************************************************)
\* str::trim
Whitespace == {" ", "\n", "\t"}
RECURSIVE TrimStart(_)
TrimStart(s) ==
    IF Len(s) > 0 /\ CharAt(s, 1) \in Whitespace
    THEN TrimStart(SubSeq(s, 2, Len(s))) ELSE s
RECURSIVE TrimEnd(_)
TrimEnd(s) ==
    IF Len(s) > 0 /\ CharAt(s, Len(s)) \in Whitespace
    THEN TrimEnd(SubSeq(s, 1, Len(s) - 1)) ELSE s
Trim(s) == TrimEnd(TrimStart(s))

\* The text frames a client is let to send.
ClientTexts == {"ping", "stats", " stats\n", "ping ", "hello"}

\* NotificationMessage (ws.rs:20-39)
Connected == [type |-> "connected", message |-> "Connected to Kusanagi notifications"]
Heartbeat == [type |-> "heartbeat"]
StatsUpdate(a, p, w) ==
    [type |-> "stats_update", argocd_issues |-> a, error_pods |-> p,
     warning_events |-> w]
Alert(severity, title, message, source) ==
    [type |-> "alert", severity |-> severity, title |-> title,
     message |-> message, source |-> source]

\* What one provider call of a poll returns: Ok(the count read from the
\* snapshot) or Err.
CountResults == {Ok(n) : n \in Counts} \cup {Err("unavailable")}

\* Result::map(..).unwrap_or(0)
CountOrZero(r) == IF r.ok THEN r.val ELSE 0

\* get_current_stats that gives up when a provider fails.
get_current_stats_Propagating(argocd_r, pods_r, events_r) ==
    IF argocd_r.ok /\ pods_r.ok /\ events_r.ok
    THEN Some(StatsUpdate(argocd_r.val, pods_r.val, events_r.val))
    ELSE None

\* get_current_stats that reports zeros as soon as one provider fails.
get_current_stats_AllOrNothing(argocd_r, pods_r, events_r) ==
    IF argocd_r.ok /\ pods_r.ok /\ events_r.ok
    THEN Some(StatsUpdate(argocd_r.val, pods_r.val, events_r.val))
    ELSE Some(StatsUpdate(0, 0, 0))

\* get_current_stats (ws.rs:217-238) on the three provider results.
get_current_stats(argocd_r, pods_r, events_r) ==
    Some(StatsUpdate(CountOrZero(argocd_r), CountOrZero(pods_r),
                     CountOrZero(events_r)))

\* check_for_new_alerts returning the last alert pushed instead of the first.
check_for_new_alerts_LastAlert(argocd_r, pods_r) ==
    LET argocd_alerts ==
            IF argocd_r.ok /\ argocd_r.val > 0
            THEN <<Alert("warning", "ArgoCD Apps Unhealthy",
                         ToString(argocd_r.val) \o " applications need attention",
                         "argocd")>>
            ELSE <<>>
        pods_alerts ==
            IF pods_r.ok /\ pods_r.val > 0
            THEN <<Alert("error", "Pods in Error",
                         ToString(pods_r.val) \o " pods are in error state",
                         "pods")>>
            ELSE <<>>
        alerts == argocd_alerts \o pods_alerts
    IN  IF Len(alerts) > 0 THEN Some(alerts[Len(alerts)]) ELSE None

\* check_for_new_alerts (ws.rs:182-214) on the two provider results: the
\* first element of the alerts vector, if any.
check_for_new_alerts(argocd_r, pods_r) ==
    LET argocd_alerts ==
            IF argocd_r.ok /\ argocd_r.val > 0
            THEN <<Alert("warning", "ArgoCD Apps Unhealthy",
                         ToString(argocd_r.val) \o " applications need attention",
                         "argocd")>>
            ELSE <<>>
        pods_alerts ==
            IF pods_r.ok /\ pods_r.val > 0
            THEN <<Alert("error", "Pods in Error",
                         ToString(pods_r.val) \o " pods are in error state",
                         "pods")>>
            ELSE <<>>
        alerts == argocd_alerts \o pods_alerts
    IN  IF Len(alerts) > 0 THEN Some(alerts[1]) ELSE None

\* do_send that queues for a stopped actor too.
DoSend_AfterStop(m) == Append(mailbox, m)

\* addr.do_send(SendNotification(m)): queued while the actor lives, dropped
\* once it has stopped.
DoSend(m) == IF status = "Closed" THEN mailbox ELSE Append(mailbox, m)

\* ws.rs:69
HeartbeatTimedOut(t, last) == t - last > CLIENT_TIMEOUT

SessionInit ==
    /\ SessionQuiet /\ ReportQuiet /\ ClassifyQuiet /\ ArgoQuiet /\ PodsQuiet
    /\ DurationQuiet
    /\ PollQuiet /\ TelemetryQuiet

\* started() without the welcome message.
Started_NoWelcome ==
    /\ status = "Connecting"
    /\ status' = "Active"
    /\ hb_due' = now + HEARTBEAT_INTERVAL
    /\ alert_due' = now + ALERT_CHECK_INTERVAL
    /\ tasks' = [tasks EXCEPT !.stats = @ + 1]
    /\ UNCHANGED <<closed_by, now, hb, last_counts, mailbox, outbox, pings, pongs,
                   client_vars, not_session_vars>>

\* Actor::started (ws.rs:94-118): both timers armed, Connected written, the
\* initial stats poll spawned.
Started ==
    /\ status = "Connecting"
    /\ status' = "Active"
    /\ hb_due' = now + HEARTBEAT_INTERVAL
    /\ alert_due' = now + ALERT_CHECK_INTERVAL
    /\ outbox' = Append(outbox, Connected.type)
    /\ tasks' = [tasks EXCEPT !.stats = @ + 1]
    /\ UNCHANGED <<closed_by, now, hb, last_counts, mailbox, pings, pongs,
                   client_vars, not_session_vars>>

\* A second passes.  Not past a due timer tick, not before started() for
\* longer than MaxStartDelay, and not while a queued SendNotification waits:
\* the actor takes it within the second.
Tick ==
    /\ now < MaxTime
    /\ mailbox = <<>>
    /\ \/ status = "Connecting" /\ now < MaxStartDelay
       \/ status = "Active" /\ now < hb_due /\ now < alert_due
    /\ now' = now + 1
    /\ UNCHANGED <<status, closed_by, hb, last_counts, timer_vars, tasks, mailbox,
                   outbox, pings, pongs, client_vars, not_session_vars>>

\* The heartbeat tick with the return after ctx.stop() forgotten.
HeartbeatTick_NoReturn ==
    /\ status = "Active"
    /\ now = hb_due
    /\ hb_due' = hb_due + HEARTBEAT_INTERVAL
    /\ pings' = pings + 1
    /\ IF HeartbeatTimedOut(now, hb)
       THEN status' = "Closed" /\ closed_by' = "heartbeat" /\ mailbox' = <<>>
       ELSE UNCHANGED <<status, closed_by, mailbox>>
    /\ UNCHANGED <<now, hb, last_counts, alert_due, tasks, outbox, pongs,
                   client_vars, not_session_vars>>

\* The heartbeat tick taking itself for a liveness signal.
HeartbeatTick_ResetsHb ==
    /\ status = "Active"
    /\ now = hb_due
    /\ hb_due' = hb_due + HEARTBEAT_INTERVAL
    /\ hb' = now
    /\ IF HeartbeatTimedOut(now, hb)
       THEN /\ status' = "Closed"
            /\ closed_by' = "heartbeat"
            /\ mailbox' = <<>>
            /\ UNCHANGED pings
       ELSE /\ pings' = pings + 1
            /\ UNCHANGED <<status, closed_by, mailbox>>
    /\ UNCHANGED <<now, last_counts, alert_due, tasks, outbox, pongs,
                   client_vars, not_session_vars>>

\* The closure run_interval(HEARTBEAT_INTERVAL, ..) calls (ws.rs:68-75).
HeartbeatTick ==
    /\ status = "Active"
    /\ now = hb_due
    /\ hb_due' = hb_due + HEARTBEAT_INTERVAL
    /\ IF HeartbeatTimedOut(now, hb)
       THEN /\ status' = "Closed"
            /\ closed_by' = "heartbeat"
            /\ mailbox' = <<>>
            /\ UNCHANGED pings
       ELSE /\ pings' = pings + 1
            /\ UNCHANGED <<status, closed_by, mailbox>>
    /\ UNCHANGED <<now, hb, last_counts, alert_due, tasks, outbox, pongs,
                   client_vars, not_session_vars>>

\* The closure run_interval(ALERT_CHECK_INTERVAL, ..) calls (ws.rs:80-87): it
\* spawns one alert poll.
AlertTick ==
    /\ status = "Active"
    /\ now = alert_due
    /\ alert_due' = alert_due + ALERT_CHECK_INTERVAL
    /\ tasks' = [tasks EXCEPT !.alerts = @ + 1]
    /\ UNCHANGED <<status, closed_by, now, hb, last_counts, hb_due, mailbox,
                   outbox, pings, pongs, client_vars, not_session_vars>>

\* A spawned get_current_stats() finishes (ws.rs:113-117, 148-152).  The
\* actor has taken the SendNotification of the poll that finished before it.
StatsPollCompletes ==
    /\ tasks.stats > 0
    /\ mailbox = <<>>
    /\ tasks' = [tasks EXCEPT !.stats = @ - 1]
    /\ \E argocd_r \in CountResults, pods_r \in CountResults, events_r \in CountResults :
         LET stats == get_current_stats(argocd_r, pods_r, events_r) IN
            mailbox' = IF stats.some THEN DoSend(stats.val) ELSE mailbox
    /\ UNCHANGED <<status, closed_by, now, hb, last_counts, timer_vars, outbox,
                   pings, pongs, client_vars, not_session_vars>>

\* A spawned check_for_new_alerts() finishes (ws.rs:82-86), likewise.
AlertPollCompletes ==
    /\ tasks.alerts > 0
    /\ mailbox = <<>>
    /\ tasks' = [tasks EXCEPT !.alerts = @ - 1]
    /\ \E argocd_r \in CountResults, pods_r \in CountResults :
         LET notification == check_for_new_alerts(argocd_r, pods_r) IN
            mailbox' = IF notification.some THEN DoSend(notification.val)
                       ELSE mailbox
    /\ UNCHANGED <<status, closed_by, now, hb, last_counts, timer_vars, outbox,
                   pings, pongs, client_vars, not_session_vars>>

\* Handler<SendNotification>::handle (ws.rs:169-173): the message goes out
\* as one text frame.
HandleSendNotification ==
    /\ status = "Active"
    /\ Len(mailbox) > 0
    /\ outbox' = Append(outbox, Head(mailbox).type)
    /\ mailbox' = Tail(mailbox)
    /\ UNCHANGED <<status, closed_by, now, hb, last_counts, timer_vars, tasks,
                   pings, pongs, client_vars, not_session_vars>>

\* The Ping arm without its assignment to hb.
HandlePing_NoLiveness ==
    /\ status = "Active"
    /\ frames < MaxFrames
    /\ frames' = frames + 1
    /\ pongs' = pongs + 1
    /\ UNCHANGED <<status, closed_by, now, hb, last_counts, timer_vars, tasks,
                   mailbox, outbox, pings, stats_cmds, not_session_vars>>

\* StreamHandler::handle, Ok(ws::Message::Ping) (ws.rs:129-132).
HandlePing ==
    /\ status = "Active"
    /\ frames < MaxFrames
    /\ frames' = frames + 1
    /\ hb' = now
    /\ pongs' = pongs + 1
    /\ UNCHANGED <<status, closed_by, now, last_counts, timer_vars, tasks,
                   mailbox, outbox, pings, stats_cmds, not_session_vars>>

\* The Pong arm without its assignment to hb.
HandlePong_NoLiveness ==
    /\ status = "Active"
    /\ pings > 0
    /\ pings' = pings - 1
    /\ UNCHANGED <<status, closed_by, now, hb, last_counts, timer_vars, tasks,
                   mailbox, outbox, pongs, client_vars, not_session_vars>>

\* StreamHandler::handle, Ok(ws::Message::Pong) (ws.rs:133-135): the client
\* answers one protocol ping.
HandlePong ==
    /\ status = "Active"
    /\ pings > 0
    /\ pings' = pings - 1
    /\ hb' = now
    /\ UNCHANGED <<status, closed_by, now, last_counts, timer_vars, tasks,
                   mailbox, outbox, pongs, client_vars, not_session_vars>>

\* The Text arm comparing the text as received, without trim().
HandleText_NoTrim(text) ==
    /\ status = "Active"
    /\ frames < MaxFrames
    /\ frames' = frames + 1
    /\ IF text = "ping"
       THEN /\ outbox' = Append(outbox, Heartbeat.type)
            /\ UNCHANGED <<tasks, stats_cmds>>
       ELSE IF text = "stats"
       THEN /\ tasks' = [tasks EXCEPT !.stats = @ + 1]
            /\ stats_cmds' = stats_cmds + 1
            /\ UNCHANGED outbox
       ELSE UNCHANGED <<outbox, tasks, stats_cmds>>
    /\ UNCHANGED <<status, closed_by, now, hb, last_counts, timer_vars, mailbox,
                   pings, pongs, not_session_vars>>

\* StreamHandler::handle, Ok(ws::Message::Text) (ws.rs:136-154).
HandleText(text) ==
    /\ status = "Active"
    /\ frames < MaxFrames
    /\ frames' = frames + 1
    /\ LET command == Trim(text)
       IN  IF command = "ping"
           THEN /\ outbox' = Append(outbox, Heartbeat.type)
                /\ UNCHANGED <<tasks, stats_cmds>>
           ELSE IF command = "stats"
           THEN /\ tasks' = [tasks EXCEPT !.stats = @ + 1]
                /\ stats_cmds' = stats_cmds + 1
                /\ UNCHANGED outbox
           ELSE UNCHANGED <<outbox, tasks, stats_cmds>>
    /\ UNCHANGED <<status, closed_by, now, hb, last_counts, timer_vars, mailbox,
                   pings, pongs, not_session_vars>>

\* StreamHandler::handle, Ok(ws::Message::Binary) (ws.rs:155).
HandleBinary ==
    /\ status = "Active"
    /\ frames < MaxFrames
    /\ frames' = frames + 1
    /\ UNCHANGED <<status, closed_by, now, hb, last_counts, timer_vars, tasks,
                   mailbox, outbox, pings, pongs, stats_cmds, not_session_vars>>

\* StreamHandler::handle, Ok(ws::Message::Close) (ws.rs:156-159).
HandleClose ==
    /\ status = "Active"
    /\ status' = "Closed"
    /\ closed_by' = "close"
    /\ mailbox' = <<>>
    /\ UNCHANGED <<now, hb, last_counts, timer_vars, tasks, outbox, pings,
                   pongs, client_vars, not_session_vars>>

\* StreamHandler::handle, any other item: a protocol error, a continuation
\* or no-op frame (ws.rs:160).
HandleOther ==
    /\ status = "Active"
    /\ status' = "Closed"
    /\ closed_by' = "error"
    /\ mailbox' = <<>>
    /\ UNCHANGED <<now, hb, last_counts, timer_vars, tasks, outbox, pings,
                   pongs, client_vars, not_session_vars>>

SessionNext ==
    \/ Started
    \/ Tick
    \/ HeartbeatTick
    \/ AlertTick
    \/ StatsPollCompletes
    \/ AlertPollCompletes
    \/ HandleSendNotification
    \/ HandlePing
    \/ HandlePong
    \/ \E text \in ClientTexts : HandleText(text)
    \/ HandleBinary
    \/ HandleClose
    \/ HandleOther

SpecSession == SessionInit /\ [][SessionNext]_vars

(***************************************************************************)
(* One spawned poll, from the provider results to the SendNotifications    *)
(* its task sends (ws.rs:82-86, 113-117, 148-152).                         *)
(***************************************************************************)
\* What a provider call of the poll returns: Ok(the count the poll reads
\* from the snapshot) or Err.
PollResults == {Ok(n) : n \in 0..MaxPollCount} \cup {Err(e) : e \in ProviderErrors}

\* if let Some(m) = poll.await { addr.do_send(SendNotification(m)) }
SentBy(poll) == IF poll.some THEN <<poll.val>> ELSE <<>>

PollInit ==
    /\ poll_in \in [argocd : PollResults, pods : PollResults, events : PollResults]
    /\ stats_sent = NoReturn /\ alerts_sent = NoReturn
    /\ ReportQuiet /\ ClassifyQuiet /\ ArgoQuiet /\ SessionQuiet /\ PodsQuiet
    /\ DurationQuiet /\ TelemetryQuiet

\* The task spawned with get_current_stats() runs to its end.
StatsPollRuns ==
    /\ stats_sent = NoReturn
    /\ stats_sent' =
            [returned |-> TRUE,
             sent |-> SentBy(get_current_stats(poll_in.argocd, poll_in.pods,
                                               poll_in.events))]
    /\ UNCHANGED <<poll_in, alerts_sent, not_poll_vars>>

\* The task spawned with check_for_new_alerts() runs to its end.
AlertPollRuns ==
    /\ alerts_sent = NoReturn
    /\ alerts_sent' =
            [returned |-> TRUE,
             sent |-> SentBy(check_for_new_alerts(poll_in.argocd, poll_in.pods))]
    /\ UNCHANGED <<poll_in, stats_sent, not_poll_vars>>

PollNext ==
    \/ StatsPollRuns
    \/ AlertPollRuns

SpecPoll == PollInit /\ [][PollNext]_vars

(***************************************************************************)
(* Pod error detector: the body of the loop over pods.items in             *)
(* get_pods_status (pods.rs:89-219) and is_pod_in_error (nodes.rs:236-274),*)
(* each run on one Pod.                                                    *)
(***************************************************************************)
\* pods.rs:50-63
ERROR_REASONS ==
    {"CrashLoopBackOff", "ImagePullBackOff", "ErrImagePull",
     "CreateContainerConfigError", "CreateContainerError", "RunContainerError",
     "OOMKilled", "Error", "InvalidImageName", "ContainerCannotRun",
     "DeadlineExceeded", "Evicted"}

\* The reasons is_pod_in_error compares a waiting reason with (nodes.rs:256-260).
NODE_ERROR_REASONS ==
    {"CrashLoopBackOff", "Error", "ImagePullBackOff", "ErrImagePull",
     "CreateContainerError"}

\* The restart count above which a pod is reported (pods.rs:198, nodes.rs:266).
RESTART_THRESHOLD == 5

\* ContainerState: at most one of running, waiting, terminated is set.
StateRunning == [running |-> Some("started"), waiting |-> None, terminated |-> None]
StateWaiting(reason, message) ==
    [running |-> None,
     waiting |-> Some([reason |-> reason, message |-> message]),
     terminated |-> None]
StateTerminated(reason, message) ==
    [running |-> None, waiting |-> None,
     terminated |-> Some([reason |-> reason, message |-> message])]

\* ContainerStatus: the fields the detectors read.
ContainerStatus(state, restart_count) ==
    [state |-> state, restart_count |-> restart_count]

\* The container statuses a listed pod is built from.
ContainerStatuses ==
    { ContainerStatus(Some(StateRunning), 5),
      ContainerStatus(Some(StateRunning), 6),
      ContainerStatus(None, 0),
      ContainerStatus(Some(StateWaiting(Some("CrashLoopBackOff"),
            Some("back-off 5m0s restarting failed container"))), 5),
      ContainerStatus(Some(StateWaiting(Some("CreateContainerConfigError"),
            Some("secret not found"))), 0),
      ContainerStatus(Some(StateWaiting(Some("ImageInspectError"),
            Some("failed to inspect image"))), 0),
      ContainerStatus(Some(StateWaiting(Some("ContainerCreating"), None)), 0),
      ContainerStatus(Some(StateTerminated(Some("OOMKilled"), None)), 5),
      ContainerStatus(Some(StateTerminated(Some("Completed"), None)), 0) }

\* Sequences over S of length at most n.
RECURSIVE SeqUpTo(_, _)
SeqUpTo(S, n) ==
    IF n = 0 THEN {<<>>}
    ELSE SeqUpTo(S, n - 1)
            \cup {Append(q, x) : q \in {r \in SeqUpTo(S, n - 1) : Len(r) = n - 1},
                                 x \in S}

\* PodStatus: phase, reason, message, container_statuses and
\* init_container_statuses, each optional.
PodPhases == {None, Some("Running"), Some("Failed"), Some("Unknown")}
PodReasons ==
    { <<None, None>>,
      <<Some("Evicted"), Some("The node was low on resource: memory")>>,
      <<None, Some("Pod was terminated in response to imminent node shutdown")>> }
PodStatus(phase, reason, message, container_statuses, init_container_statuses) ==
    [phase |-> phase, reason |-> reason, message |-> message,
     container_statuses |-> container_statuses,
     init_container_statuses |-> init_container_statuses]

\* Pod: status may be absent.
Pod(pod_status) == [called |-> TRUE, status |-> pod_status]

\* Option::and_then on a field of an optional record.
AndThen(opt, field) == IF opt.some THEN opt.val[field] ELSE None

\* get_container_state_info (pods.rs:236-257)
get_container_state_info(cs) ==
    IF cs.state.some /\ cs.state.val.running.some
    THEN [state |-> "Running", reason |-> None, message |-> None]
    ELSE IF cs.state.some /\ cs.state.val.waiting.some
    THEN [state |-> "Waiting",
          reason |-> cs.state.val.waiting.val.reason,
          message |-> cs.state.val.waiting.val.message]
    ELSE IF cs.state.some /\ cs.state.val.terminated.some
    THEN [state |-> "Terminated",
          reason |-> cs.state.val.terminated.val.reason,
          message |-> cs.state.val.terminated.val.message]
    ELSE [state |-> "Unknown", reason |-> None, message |-> None]

\* The reason test that asks for equality with an error reason.
IsErrorReason_Exact(reason) == reason.some /\ reason.val \in ERROR_REASONS

\* if let Some(ref r) = reason { if ERROR_REASONS.iter().any(|er| r.contains(er))
\* (pods.rs:149-150, 176-177)
IsErrorReason(reason) ==
    reason.some /\ \E er \in ERROR_REASONS : Contains(reason.val, er)

\* The recording that lets a later match overwrite.
RecordError_Overwrite(acc, info) ==
    [acc EXCEPT !.is_error_pod = TRUE,
                !.pod_error_reason = info.reason,
                !.pod_error_message = info.message]

\* pods.rs:151-155 and 178-182
RecordError(acc, info) ==
    IF ~acc.pod_error_reason.some
    THEN [acc EXCEPT !.is_error_pod = TRUE,
                     !.pod_error_reason = info.reason,
                     !.pod_error_message = info.message]
    ELSE [acc EXCEPT !.is_error_pod = TRUE]

\* The loops over container_statuses (pods.rs:143-167, adding up restarts)
\* and over init_container_statuses (pods.rs:172-194, not adding them).
RECURSIVE CheckContainers(_, _, _)
CheckContainers(acc, statuses, add_restarts) ==
    IF Len(statuses) = 0 THEN acc
    ELSE LET cs == Head(statuses)
             counted == IF add_restarts
                        THEN [acc EXCEPT !.total_restarts = @ + cs.restart_count]
                        ELSE acc
             info == get_container_state_info(cs)
             checked == IF IsErrorReason(info.reason)
                        THEN RecordError(counted, info)
                        ELSE counted
         IN  CheckContainers(checked, Tail(statuses), add_restarts)

\* pods.rs:135
PhaseIsError(phase) == phase = "Failed"

\* pods.rs:198
HighRestarts(acc) == acc.total_restarts > RESTART_THRESHOLD /\ ~acc.is_error_pod

\* The body of the loop of get_pods_status on one pod (pods.rs:93-218): the
\* PodInfo it pushes, with is_error telling whether it pushes it.
AnalyzePod(p) ==
    LET pod_status == p.status
        phase == UnwrapOr(AndThen(pod_status, "phase"), "Unknown")
        start == [is_error_pod |-> FALSE, pod_error_reason |-> None,
                  pod_error_message |-> None, total_restarts |-> 0]
        by_phase ==
            IF PhaseIsError(phase)
            THEN [start EXCEPT !.is_error_pod = TRUE,
                               !.pod_error_reason = AndThen(pod_status, "reason"),
                               !.pod_error_message = AndThen(pod_status, "message")]
            ELSE start
        container_statuses == AndThen(pod_status, "container_statuses")
        by_containers ==
            IF container_statuses.some
            THEN CheckContainers(by_phase, container_statuses.val, TRUE)
            ELSE by_phase
        init_container_statuses == AndThen(pod_status, "init_container_statuses")
        by_init ==
            IF init_container_statuses.some
            THEN CheckContainers(by_containers, init_container_statuses.val, FALSE)
            ELSE by_containers
        final ==
            IF HighRestarts(by_init)
            THEN [by_init EXCEPT
                    !.is_error_pod = TRUE,
                    !.pod_error_reason =
                        Some("HighRestartCount (" \o ToString(by_init.total_restarts)
                                \o ")")]
            ELSE by_init
    IN  [returned |-> TRUE,
         is_error |-> final.is_error_pod,
         status |-> phase,
         reason |-> final.pod_error_reason,
         message |-> final.pod_error_message,
         restart_count |-> final.total_restarts]

\* is_pod_in_error (nodes.rs:237-274)
is_pod_in_error(p) ==
    LET phase == UnwrapOr(AndThen(p.status, "phase"), "")
        container_statuses == AndThen(p.status, "container_statuses")
        ContainerInError(cs) ==
            \/ /\ cs.state.some /\ cs.state.val.waiting.some
               /\ UnwrapOr(cs.state.val.waiting.val.reason, "") \in NODE_ERROR_REASONS
            \/ cs.restart_count > RESTART_THRESHOLD
    IN  \/ phase = "Failed" \/ phase = "Unknown"
        \/ /\ container_statuses.some
           /\ \E k \in 1..Len(container_statuses.val) :
                    ContainerInError(container_statuses.val[k])

PodsInit ==
    /\ \/ pod = Pod(None)
       \/ \E ph \in PodPhases, rm \in PodReasons,
             c \in OptionOf(SeqUpTo(ContainerStatuses, MaxContainers)),
             i \in OptionOf(SeqUpTo(ContainerStatuses, MaxInitContainers)) :
                pod = Pod(Some(PodStatus(ph, rm[1], rm[2], c, i)))
    /\ pod_info = NoReturn /\ node_verdict = NoReturn
    /\ ReportQuiet /\ ClassifyQuiet /\ ArgoQuiet /\ SessionQuiet /\ DurationQuiet
    /\ PollQuiet /\ TelemetryQuiet

\* get_pods_status comes to the pod in its loop.
GetPodsStatus ==
    /\ pod_info = NoReturn
    /\ pod_info' = AnalyzePod(pod)
    /\ UNCHANGED <<pod, node_verdict, not_pods_vars>>

\* get_nodes_status asks is_pod_in_error about the pod.
GetNodesStatus ==
    /\ node_verdict = NoReturn
    /\ node_verdict' = [returned |-> TRUE, is_error |-> is_pod_in_error(pod)]
    /\ UNCHANGED <<pod, pod_info, not_pods_vars>>

PodsNext ==
    \/ GetPodsStatus
    \/ GetNodesStatus

SpecPods == PodsInit /\ [][PodsNext]_vars

(***************************************************************************)
(* Telemetry event queue (telemetry.rs:243-319): queue_event and           *)
(* force_flush called from several threads, one step per statement that    *)
(* takes or gives back a mutex, and the flush_events tasks they start.     *)
(* Events are numbered in the order they are pushed.                       *)
(***************************************************************************)
\* TelemetryConfig::default().batch_size (telemetry.rs:36)
BATCH_SIZE == 10

Threads == 1..MaxThreads

\* A Vec handed to flush_events: by tokio::spawn (by = 0) or awaited by the
\* thread in force_flush; sent once flush_events has read the configuration
\* and is through with it.
Batch(events, by) == [events |-> events, by |-> by, sent |-> FALSE]

TelemetryInit ==
    /\ tel_enabled \in BOOLEAN /\ tel_sampling \in BOOLEAN
    /\ tpc = [t \in Threads |-> "idle"]
    /\ config_lock = 0 /\ queue_lock = 0
    /\ event_queue = <<>> /\ pushed = 0 /\ calls = 0 /\ batches = <<>>
    /\ ReportQuiet /\ ClassifyQuiet /\ ArgoQuiet /\ SessionQuiet /\ PodsQuiet
    /\ DurationQuiet /\ PollQuiet

\* queue_event is called and loads TELEMETRY_ENABLED (telemetry.rs:243-246).
QueueEventCall(t) ==
    /\ tpc[t] = "idle"
    /\ calls < MaxCalls
    /\ calls' = calls + 1
    /\ tpc' = [tpc EXCEPT ![t] = IF tel_enabled THEN "lock_config" ELSE "idle"]
    /\ UNCHANGED <<tel_enabled, tel_sampling, config_lock, queue_lock,
                   event_queue, pushed, batches, not_telemetry_vars>>

\* let config = TELEMETRY_CONFIG.lock().unwrap() (telemetry.rs:249)
QueueEventLocksConfig(t) ==
    /\ tpc[t] = "lock_config"
    /\ config_lock = 0
    /\ config_lock' = t
    /\ tpc' = [tpc EXCEPT ![t] = "sample"]
    /\ UNCHANGED <<tel_enabled, tel_sampling, queue_lock, event_queue, pushed,
                   calls, batches, not_telemetry_vars>>

\* The sample rate check (telemetry.rs:250-253): the event is dropped and
\* the guard with it, or the guard is dropped and the call goes on.
QueueEventSamples(t) ==
    /\ tpc[t] = "sample"
    /\ config_lock' = 0
    /\ \/ tel_sampling /\ tpc' = [tpc EXCEPT ![t] = "idle"]
       \/ tpc' = [tpc EXCEPT ![t] = "lock_queue"]
    /\ UNCHANGED <<tel_enabled, tel_sampling, queue_lock, event_queue, pushed,
                   calls, batches, not_telemetry_vars>>

\* let mut queue = EVENT_QUEUE.lock().unwrap(); queue.push(event)
\* (telemetry.rs:255-256)
QueueEventPushes(t) ==
    /\ tpc[t] = "lock_queue"
    /\ queue_lock = 0
    /\ queue_lock' = t
    /\ pushed' = pushed + 1
    /\ event_queue' = Append(event_queue, pushed + 1)
    /\ tpc' = [tpc EXCEPT ![t] = "batch_size"]
    /\ UNCHANGED <<tel_enabled, tel_sampling, config_lock, calls, batches,
                   not_telemetry_vars>>

\* let batch_size = TELEMETRY_CONFIG.lock().unwrap().batch_size
\* (telemetry.rs:258): the mutex is taken and given back in the statement,
\* with the queue still locked.
QueueEventReadsBatchSize(t) ==
    /\ tpc[t] = "batch_size"
    /\ config_lock = 0
    /\ tpc' = [tpc EXCEPT ![t] = "flush"]
    /\ UNCHANGED <<tel_enabled, tel_sampling, config_lock, queue_lock,
                   event_queue, pushed, calls, batches, not_telemetry_vars>>

\* The full queue copied for the flush and left as it is.
QueueEventFlushes_NoDrain(t) ==
    /\ tpc[t] = "flush"
    /\ IF Len(event_queue) >= BATCH_SIZE
       THEN batches' = Append(batches, Batch(event_queue, 0))
       ELSE UNCHANGED batches
    /\ queue_lock' = 0
    /\ tpc' = [tpc EXCEPT ![t] = "idle"]
    /\ UNCHANGED <<tel_enabled, tel_sampling, config_lock, event_queue, pushed,
                   calls, not_telemetry_vars>>

\* telemetry.rs:259-266: a full queue is drained, unlocked and handed to a
\* spawned flush_events; otherwise the guard goes at the end of the function.
QueueEventFlushes(t) ==
    /\ tpc[t] = "flush"
    /\ IF Len(event_queue) >= BATCH_SIZE
       THEN /\ batches' = Append(batches, Batch(event_queue, 0))
            /\ event_queue' = <<>>
       ELSE UNCHANGED <<batches, event_queue>>
    /\ queue_lock' = 0
    /\ tpc' = [tpc EXCEPT ![t] = "idle"]
    /\ UNCHANGED <<tel_enabled, tel_sampling, config_lock, pushed, calls,
                   not_telemetry_vars>>

\* force_flush is called (telemetry.rs:310); the calls that are draining or
\* have drained a batch are bounded.
ForceFlushCall(t) ==
    /\ tpc[t] = "idle"
    /\ Cardinality({u \in Threads : tpc[u] = "drain"})
         + Cardinality({k \in 1..Len(batches) : batches[k].by # 0})
            < MaxForceFlushes
    /\ tpc' = [tpc EXCEPT ![t] = "drain"]
    /\ UNCHANGED <<tel_enabled, tel_sampling, config_lock, queue_lock,
                   event_queue, pushed, calls, batches, not_telemetry_vars>>

\* telemetry.rs:311-318: the queue is locked, drained and unlocked; what it
\* held, if anything, goes to flush_events.
ForceFlushDrains(t) ==
    /\ tpc[t] = "drain"
    /\ queue_lock = 0
    /\ IF Len(event_queue) > 0
       THEN /\ batches' = Append(batches, Batch(event_queue, t))
            /\ event_queue' = <<>>
            /\ tpc' = [tpc EXCEPT ![t] = "flush_events"]
       ELSE /\ tpc' = [tpc EXCEPT ![t] = "idle"]
            /\ UNCHANGED <<batches, event_queue>>
    /\ UNCHANGED <<tel_enabled, tel_sampling, config_lock, queue_lock, pushed,
                   calls, not_telemetry_vars>>

\* flush_events (telemetry.rs:268-307) on the k-th batch: it clones the
\* configuration under its mutex and sends or skips the batch.  A batch
\* awaited in force_flush lets its thread return.
FlushEvents(k) ==
    /\ k \in 1..Len(batches)
    /\ ~batches[k].sent
    /\ config_lock = 0
    /\ batches' = [batches EXCEPT ![k].sent = TRUE]
    /\ tpc' = IF batches[k].by = 0 THEN tpc
              ELSE [tpc EXCEPT ![batches[k].by] = "idle"]
    /\ UNCHANGED <<tel_enabled, tel_sampling, config_lock, queue_lock,
                   event_queue, pushed, calls, not_telemetry_vars>>

TelemetryNext ==
    \/ \E t \in Threads :
            \/ QueueEventCall(t)
            \/ QueueEventLocksConfig(t)
            \/ QueueEventSamples(t)
            \/ QueueEventPushes(t)
            \/ QueueEventReadsBatchSize(t)
            \/ QueueEventFlushes(t)
            \/ ForceFlushCall(t)
            \/ ForceFlushDrains(t)
    \/ \E k \in 1..MaxCalls : FlushEvents(k)

SpecTelemetry == TelemetryInit /\ [][TelemetryNext]_vars

(***************************************************************************)
(* Report aggregator: claims.                                              *)
(***************************************************************************)
Required == {"nodes", "argocd", "events", "storage"}
Optional == {"alerts", "metrics"}

\* The result of provider p once generate_report has returned.
ResultOf(p) == results[p].out
Returned == rpc = "done"

\* C1: whenever generate_report has returned and some required source
\* (nodes, applications, events, storage) failed, it returned an error and
\* no ClusterReport, whatever the other five sources returned.
C1_RequiredFailureAborts ==
    Returned =>
        ((\E p \in Required : ~ResultOf(p).ok) => ~report.result.ok)

\* C1 witness: Events failed, every other source succeeded, and the call
\* returned an error.
C1_Witness ==
    /\ Returned
    /\ ~ResultOf("events").ok
    /\ \A p \in Providers \ {"events"} : ResultOf(p).ok
    /\ ~report.result.ok

RequiredOrder == <<"nodes", "argocd", "events", "storage">>
SourceName(p) ==
    CASE p = "nodes" -> "nodes"
      [] p = "argocd" -> "ArgoCD status"
      [] p = "events" -> "events"
      [] p = "storage" -> "storage"
FirstFailing ==
    RequiredOrder[CHOOSE i \in 1..4 :
        /\ ~ResultOf(RequiredOrder[i]).ok
        /\ \A j \in 1..(i - 1) : ResultOf(RequiredOrder[j]).ok]

\* C3: when generate_report returns an error, the error is "Failed to get
\* <name>: <e>" where <name> names the first failing required source in the
\* order nodes, applications, events, storage and <e> is that source's own
\* error; no other failing source shows in it.
C3_FirstRequiredErrorNamed ==
    (Returned /\ \E p \in Required : ~ResultOf(p).ok) =>
        report.result =
            Err("Failed to get " \o SourceName(FirstFailing) \o ": "
                \o ResultOf(FirstFailing).err)

\* C3 witness: ArgoCD, events and storage all failed, with different errors;
\* the error returned is the ArgoCD one.
C3_Witness ==
    /\ Returned
    /\ ResultOf("nodes").ok
    /\ ResultOf("argocd") = Err("timeout")
    /\ ResultOf("events") = Err("connection refused")
    /\ ResultOf("storage") = Err("connection refused")
    /\ report.result = Err("Failed to get ArgoCD status: timeout")

(***************************************************************************)
(* Issue classifier: claims.                                               *)
(***************************************************************************)
Classified == cout # NoReturn

\* C4: every call with health_status == "Progressing" returns Progressing,
\* whatever sync_status, message, is_helm_chart and target_revision are.
C4_ProgressingWins ==
    (Classified /\ cin.health_status = "Progressing") =>
        cout.result = "Progressing"

\* C4 witness: Progressing + OutOfSync + helm chart + revision "*" has been
\* classified, as Progressing.
C4_Witness ==
    /\ Classified
    /\ cin.health_status = "Progressing"
    /\ cin.sync_status = "OutOfSync"
    /\ cin.is_helm_chart
    /\ cin.target_revision = Some("*")
    /\ cout.result = "Progressing"

\* C5: for Healthy + OutOfSync the result is UpgradeAvailable whenever the
\* target revision is "*" or any case spelling of "latest" or "head" (any
\* message, helm chart or not), and whenever is_helm_chart holds (any message,
\* any target revision, None included).
C5_UpgradeAvailable ==
    (/\ Classified
     /\ cin.health_status = "Healthy"
     /\ cin.sync_status = "OutOfSync"
     /\ \/ cin.target_revision.some /\ cin.target_revision.val \in WildcardRevisions
        \/ cin.is_helm_chart)
    => cout.result = "UpgradeAvailable"

\* C5 witness: a non-helm application whose revision is spelled "HeAd", with
\* a message that matches no keyword, was classified UpgradeAvailable.
C5_Witness ==
    /\ Classified
    /\ cin.health_status = "Healthy"
    /\ cin.sync_status = "OutOfSync"
    /\ ~cin.is_helm_chart
    /\ cin.target_revision = Some("HeAd")
    /\ cin.message = Some("one or more objects failed to apply")
    /\ cout.result = "UpgradeAvailable"

\* C6: every call returns one of the three categories, and an input matching
\* neither rule 1 nor rule 2 yields RealIssue: health other than Progressing
\* with (health, sync) # (Healthy, OutOfSync); and Healthy + OutOfSync that is
\* no helm chart and has an absent or non-wildcard revision, whatever the
\* message says.
C6_OtherwiseRealIssue ==
    Classified =>
        /\ cout.result \in IssueCategory
        /\ (/\ cin.health_status # "Progressing"
            /\ ~(cin.health_status = "Healthy" /\ cin.sync_status = "OutOfSync"))
           => cout.result = "RealIssue"
        /\ (/\ cin.health_status = "Healthy"
            /\ cin.sync_status = "OutOfSync"
            /\ ~cin.is_helm_chart
            /\ ~(cin.target_revision.some
                 /\ cin.target_revision.val \in WildcardRevisions))
           => cout.result = "RealIssue"

\* C6 witness: Healthy + OutOfSync, not a helm chart, revision "1.2.3" and a
\* message containing "successfully synced": a RealIssue.
C6_Witness ==
    /\ Classified
    /\ cin.health_status = "Healthy"
    /\ cin.sync_status = "OutOfSync"
    /\ ~cin.is_helm_chart
    /\ cin.target_revision = Some("1.2.3")
    /\ cin.message = Some("Successfully Synced")
    /\ cout.result = "RealIssue"

(***************************************************************************)
(* get_argocd_status: claims.                                              *)
(***************************************************************************)
\* How many entries of the list of issues l carry the name n.
Occurrences(l, n) == Cardinality({k \in 1..Len(l) : l[k].name = n})

\* C7: after get_argocd_status returned Ok, each application record appears
\* exactly once in apps_with_issues or apps_with_upgrades (never in both) if
\* health_status # "Healthy" or sync_status is "OutOfSync" or "Unknown"
\* (missing status fields counting as "Unknown"), and in neither otherwise.
C7_IssueEmittedIff ==
    (response # NoReturn /\ response.result.ok) =>
        \A i \in 1..Len(apps) :
            LET h == IF apps[i].health.some THEN apps[i].health.val ELSE "Unknown"
                sy == IF apps[i].sync.some THEN apps[i].sync.val ELSE "Unknown"
                emitted ==
                    Occurrences(response.result.val.apps_with_issues, AppName(i))
                    + Occurrences(response.result.val.apps_with_upgrades, AppName(i))
            IN  emitted = (IF h # "Healthy" \/ sy = "OutOfSync" \/ sy = "Unknown"
                           THEN 1 ELSE 0)

\* C7 witness: a Healthy + Synced application was dropped and a Healthy
\* application with no sync status was emitted as an issue with sync
\* "Unknown".
C7_Witness ==
    /\ response # NoReturn /\ response.result.ok
    /\ Len(apps) = 2
    /\ apps[1].health = Some("Healthy") /\ apps[1].sync = Some("Synced")
    /\ apps[2].health = Some("Healthy") /\ apps[2].sync = None
    /\ Len(response.result.val.apps_with_upgrades) = 0
    /\ Len(response.result.val.apps_with_issues) = 1
    /\ response.result.val.apps_with_issues[1].name = AppName(2)
    /\ response.result.val.apps_with_issues[1].sync_status = "Unknown"

(***************************************************************************)
(* Notification session: claims.                                           *)
(***************************************************************************)
\* Seconds since the last liveness signal (Instant::now() - act.hb).
Silence == now - hb

\* How many of the text frames written so far carry the type t.
Written(t) == Cardinality({k \in 1..Len(outbox) : outbox[k] = t})

\* How many queued SendNotification messages carry the type t.
Queued(t) == Cardinality({k \in 1..Len(mailbox) : mailbox[k].type = t})

\* A step in which the heartbeat closure runs: the session is Active and the
\* heartbeat timer is re-armed.
HeartbeatCheckRuns == status = "Active" /\ hb_due' = hb_due + HEARTBEAT_INTERVAL

\* C8 as stated: once a session has had no liveness signal for 11 seconds
\* it is Closed.
C8_ElevenSecondsSilentClosed == Silence >= 11 => status = "Closed"

\* C8 as amended: the session is stopped by the heartbeat check, which runs
\* every HEARTBEAT_INTERVAL seconds: a check that finds the time since the
\* last liveness signal above CLIENT_TIMEOUT closes the session and sends no
\* ping and writes no text frame; a check that finds it at or below
\* CLIENT_TIMEOUT sends one ping and leaves the session Active.  So an Active
\* session is never silent for more than CLIENT_TIMEOUT + HEARTBEAT_INTERVAL
\* seconds (15, not 11).
C8_HeartbeatCheckCloses ==
    /\ [](status = "Active" => Silence <= CLIENT_TIMEOUT + HEARTBEAT_INTERVAL)
    /\ [][HeartbeatCheckRuns =>
            IF Silence > CLIENT_TIMEOUT
            THEN /\ status' = "Closed"
                 /\ pings' = pings
                 /\ outbox' = outbox
            ELSE /\ status' = "Active"
                 /\ pings' = pings + 1
                 /\ outbox' = outbox]_vars

\* C8 witness: a session that had answered a ping was closed by the
\* heartbeat check after more than CLIENT_TIMEOUT seconds of silence, with the
\* pings of the silent checks before it still unanswered.
C8_Witness ==
    /\ status = "Closed"
    /\ closed_by = "heartbeat"
    /\ hb > 0
    /\ Silence > CLIENT_TIMEOUT
    /\ pings > 0

\* C9: the heartbeat check never closes a session that has answered every
\* protocol ping sent to it: a session closed by the heartbeat check has a
\* ping outstanding, whatever the alert timer and the polls did.
C9_AnsweringClientStaysActive == closed_by = "heartbeat" => pings > 0

\* C9 witness: past the first alert tick, with the alert poll still running,
\* a client that sent nothing but pongs has answered every ping, the last one
\* at the latest heartbeat tick, and the session is Active.
C9_Witness ==
    /\ status = "Active"
    /\ now >= ALERT_CHECK_INTERVAL
    /\ tasks.alerts > 0
    /\ frames = 0
    /\ pings = 0
    /\ hb = hb_due - HEARTBEAT_INTERVAL

\* C10: the stats_update frames written, the stats_update notifications
\* queued for the actor and the stats polls still running never add up to
\* more than one per "stats" command plus one for the initial poll, and add
\* up to exactly that while the session is Active: each "stats" command
\* gets exactly one stats_update, whatever the providers returned and
\* wherever the alert timer stands.
C10_OneStatsUpdatePerCommand ==
    LET accounted == Written("stats_update") + Queued("stats_update") + tasks.stats
    IN  /\ accounted <= 1 + stats_cmds
        /\ status = "Active" => accounted = 1 + stats_cmds

\* C10 witness: after the alert tick, with the alert poll running, a "stats"
\* command has been answered: two stats_update frames written (initial poll
\* and command), none pending.
C10_Witness ==
    /\ status = "Active"
    /\ now >= ALERT_CHECK_INTERVAL
    /\ tasks.alerts > 0
    /\ stats_cmds = 1
    /\ tasks.stats = 0
    /\ mailbox = <<>>
    /\ Written("stats_update") = 2

\* C11 as stated: an Alert is emitted only when a count has risen above the
\* session's stored last-known counts, and the stored counts are then
\* updated.  The stored counts start at zero, so once the first alert poll
\* has had an Alert written (and before a second poll could have run) the
\* stored counts are not all zero any more.
C11_AlertOnlyOnIncrease ==
    (Written("alert") > 0 /\ now < 2 * ALERT_CHECK_INTERVAL) =>
        last_counts # <<0, 0, 0>>

\* C12: nothing is written before started(); the first text frame written is
\* connected and it is written exactly once; and the initial stats poll of an
\* Active session that got no "stats" command accounts for exactly one
\* stats_update (running, queued or written).
C12_ConnectedFirstThenStats ==
    /\ status = "Connecting" => outbox = <<>>
    /\ status # "Connecting" => Len(outbox) > 0 /\ outbox[1] = "connected"
    /\ Written("connected") <= 1
    /\ (status = "Active" /\ stats_cmds = 0) =>
            Written("stats_update") + Queued("stats_update") + tasks.stats = 1

\* C12 witness: connected, then the stats_update of the initial poll, and
\* nothing else asked for.
C12_Witness ==
    /\ status = "Active"
    /\ stats_cmds = 0
    /\ outbox = <<"connected", "stats_update">>

\* What a handler leaves alone when it ignores a frame.
FrameIgnored ==
    UNCHANGED <<status, closed_by, hb, last_counts, timer_vars, tasks, mailbox,
                outbox, pings, pongs, stats_cmds>>

\* C13 as stated: every text other than "ping" and "stats" is ignored.
C13_OtherTextIgnored ==
    [][\A text \in ClientTexts \ {"ping", "stats"} :
            HandleText(text) => FrameIgnored]_vars

\* C13 as amended: a text whose trimmed content is "ping" is answered with
\* exactly one heartbeat frame and nothing else; a text whose trimmed content
\* is neither "ping" nor "stats" and every binary frame is ignored (nothing
\* written, no state change, the session stays Active); a close frame stops
\* the session.
C13_FramesHandled ==
    [][/\ frames' # frames =>
            \A text \in ClientTexts :
                HandleText(text) =>
                    LET command == Trim(text)
                    IN  IF command = "ping"
                        THEN /\ outbox' = Append(outbox, "heartbeat")
                             /\ UNCHANGED <<status, hb, tasks, mailbox, stats_cmds>>
                        ELSE IF command = "stats"
                        THEN outbox' = outbox /\ status' = "Active"
                        ELSE FrameIgnored
       /\ HandleBinary => FrameIgnored
       /\ HandleClose => status' = "Closed"]_vars

\* C13 witness: one text frame was received, it was answered with a
\* heartbeat, and the session is Active.
C13_Witness ==
    /\ status = "Active"
    /\ frames = 1
    /\ stats_cmds = 0
    /\ Written("heartbeat") = 1

\* C14: once the session is Closed nothing changes for the client or the
\* actor any more: no text frame, ping or pong is written, neither timer
\* fires or is re-armed, the session stays Closed, and no SendNotification is
\* queued: what a poll that finishes later returns is dropped.
C14_ClosedIsSilent ==
    /\ [](status = "Closed" => mailbox = <<>>)
    /\ [][status = "Closed" =>
            /\ status' = "Closed"
            /\ UNCHANGED <<outbox, pings, pongs, timer_vars, hb, mailbox>>]_vars

\* C14 witness: the session was closed while its initial stats poll and an
\* alert poll were running; both have finished since and nothing but the
\* welcome message was ever written.
C14_Witness ==
    /\ status = "Closed"
    /\ alert_due > ALERT_CHECK_INTERVAL + MaxStartDelay
    /\ tasks = [stats |-> 0, alerts |-> 0]
    /\ outbox = <<"connected">>

\* C15 as stated: every inbound frame (ping, text, binary; a pong too)
\* updates the liveness timestamp.
C15_EveryFrameIsLiveness ==
    [][(frames' = frames + 1 \/ pings' = pings - 1) => hb' = now]_vars

\* C15 as amended: protocol pings and pongs update the liveness timestamp,
\* text and binary frames leave it alone; and the heartbeat check closes a
\* session only when more than CLIENT_TIMEOUT seconds have passed since the
\* last protocol ping or pong.
C15_PingPongIsLiveness ==
    /\ [](closed_by = "heartbeat" => Silence > CLIENT_TIMEOUT)
    /\ [][/\ (pongs' = pongs + 1 \/ pings' = pings - 1) => hb' = now
          /\ (frames' = frames + 1 /\ pongs' = pongs) => hb' = hb]_vars

\* C15 witness: the client's protocol ping, received after the second
\* heartbeat tick, is the last liveness signal of an Active session.
C15_Witness ==
    /\ status = "Active"
    /\ pongs = 1
    /\ hb = now
    /\ now > CLIENT_TIMEOUT

(***************************************************************************)
(* Pod error detector: claims.                                             *)
(***************************************************************************)
\* The pod's phase, a missing one counting as Unknown.
PodPhase == IF pod.status.some /\ pod.status.val.phase.some
            THEN pod.status.val.phase.val ELSE "Unknown"

\* The pod's top-level status reason and message.
TopReason == IF pod.status.some THEN pod.status.val.reason ELSE None
TopMessage == IF pod.status.some THEN pod.status.val.message ELSE None

\* The pod's container statuses and init container statuses, absent lists
\* being empty.
Regular ==
    IF pod.status.some /\ pod.status.val.container_statuses.some
    THEN pod.status.val.container_statuses.val ELSE <<>>
InitOnes ==
    IF pod.status.some /\ pod.status.val.init_container_statuses.some
    THEN pod.status.val.init_container_statuses.val ELSE <<>>
\* In iteration order: regular containers, then init containers.
AllContainers == Regular \o InitOnes

RECURSIVE SumRestarts(_)
SumRestarts(statuses) ==
    IF Len(statuses) = 0 THEN 0
    ELSE Head(statuses).restart_count + SumRestarts(Tail(statuses))

\* The container is Waiting with a reason that is one of the 12.
WaitingOnErrorReason(cs) ==
    /\ cs.state.some /\ cs.state.val.waiting.some
    /\ cs.state.val.waiting.val.reason.some
    /\ cs.state.val.waiting.val.reason.val \in ERROR_REASONS

\* The container is Waiting or Terminated with a reason that has one of the
\* 12 as a substring.
StoppedOnErrorReason(cs) ==
    /\ cs.state.some /\ ~cs.state.val.running.some
    /\ LET st == IF cs.state.val.waiting.some THEN cs.state.val.waiting
                 ELSE cs.state.val.terminated
       IN  /\ st.some /\ st.val.reason.some
           /\ \E er \in ERROR_REASONS : Contains(st.val.reason.val, er)

\* The reason and message of a Waiting or Terminated container.
StoppedReason(cs) ==
    IF cs.state.val.waiting.some THEN cs.state.val.waiting.val.reason
    ELSE cs.state.val.terminated.val.reason
StoppedMessage(cs) ==
    IF cs.state.val.waiting.some THEN cs.state.val.waiting.val.message
    ELSE cs.state.val.terminated.val.message

\* C16 as stated: a pod whose phase is Failed or Unknown (missing counting as
\* Unknown) is an error pod for get_pods_status, reported with the pod's
\* top-level status reason and message.
C16_FailedOrUnknownPhaseIsError ==
    (pod_info.returned /\ PodPhase \in {"Failed", "Unknown"}) =>
        /\ pod_info.is_error
        /\ pod_info.reason = TopReason
        /\ pod_info.message = TopMessage

\* C17 as stated: a pod whose phase is not Failed/Unknown and whose restarts
\* add up to at most 5 is an error pod iff some container or init container
\* is Waiting with a reason that is one of the 12.
C17_WaitingOnListedReason ==
    (pod_info.returned /\ PodPhase \notin {"Failed", "Unknown"}
        /\ SumRestarts(Regular) <= RESTART_THRESHOLD) =>
        (pod_info.is_error <=>
            \E k \in 1..Len(AllContainers) : WaitingOnErrorReason(AllContainers[k]))

\* C17 as amended: such a pod is an error pod iff some container or init
\* container is Waiting or Terminated with a reason that contains one of the
\* 12 reasons; a Running container, or a reason containing none of them, does
\* not make it one.
C17_StoppedOnReasonContaining ==
    (pod_info.returned /\ PodPhase \notin {"Failed", "Unknown"}
        /\ SumRestarts(Regular) <= RESTART_THRESHOLD) =>
        (pod_info.is_error <=>
            \E k \in 1..Len(AllContainers) : StoppedOnErrorReason(AllContainers[k]))

\* C17 witness: a Running pod whose only container is Terminated with reason
\* OOMKilled and 5 restarts is an error pod with that reason.
C17_Witness ==
    /\ pod_info.returned
    /\ PodPhase = "Running"
    /\ Len(Regular) = 1 /\ Len(InitOnes) = 0
    /\ Regular[1].state = Some(StateTerminated(Some("OOMKilled"), None))
    /\ pod_info.is_error
    /\ pod_info.reason = Some("OOMKilled")

\* C18: when rule 1 does not apply and containers match an error reason, the
\* recorded reason and message are both those of the first matching
\* container, regular containers before init containers.
C18_FirstMatchRecorded ==
    (pod_info.returned /\ PodPhase \notin {"Failed", "Unknown"}) =>
        LET matching == {k \in 1..Len(AllContainers) :
                            StoppedOnErrorReason(AllContainers[k])}
        IN  matching # {} =>
                LET first == CHOOSE k \in matching : \A j \in matching : k <= j
                IN  /\ pod_info.reason = StoppedReason(AllContainers[first])
                    /\ pod_info.message = StoppedMessage(AllContainers[first])

\* C18 witness: of a regular container waiting on CreateContainerConfigError,
\* a second in CrashLoopBackOff and an init container on ImageInspectError,
\* the first one's reason and message are recorded.
C18_Witness ==
    /\ pod_info.returned
    /\ PodPhase = "Running"
    /\ Len(Regular) = 2 /\ Len(InitOnes) = 1
    /\ StoppedOnErrorReason(Regular[1])
    /\ StoppedOnErrorReason(Regular[2])
    /\ StoppedOnErrorReason(InitOnes[1])
    /\ StoppedReason(Regular[1]) = Some("CreateContainerConfigError")
    /\ StoppedReason(Regular[2]) = Some("CrashLoopBackOff")
    /\ pod_info.reason = Some("CreateContainerConfigError")
    /\ pod_info.message = Some("secret not found")

\* Rule 1 or rule 2 applies to the pod.
StructuralError ==
    \/ PodPhase \in {"Failed", "Unknown"}
    \/ \E k \in 1..Len(AllContainers) : StoppedOnErrorReason(AllContainers[k])

HighRestartCount(n) == Some("HighRestartCount (" \o ToString(n) \o ")")

\* C19 as stated: a pod to which rules 1 and 2 do not apply is an error pod
\* iff the restart counts of all its containers add up to more than 5, and
\* its reason is then "HighRestartCount (N)", N that sum; a pod to which rule
\* 1 or 2 applies is an error pod whose reason is never HighRestartCount.
C19_HighRestartCount ==
    /\ (pod_info.returned /\ ~StructuralError) =>
        /\ pod_info.is_error <=> SumRestarts(AllContainers) > RESTART_THRESHOLD
        /\ pod_info.is_error =>
                pod_info.reason = HighRestartCount(SumRestarts(AllContainers))
    /\ (pod_info.returned /\ StructuralError) =>
        /\ pod_info.is_error
        /\ \A n \in 0..SumRestarts(AllContainers) :
                pod_info.reason # HighRestartCount(n)

\* C20 as stated: is_pod_in_error and get_pods_status give the same verdict
\* for every pod.
C20_SameVerdict ==
    (pod_info.returned /\ node_verdict.returned) =>
        pod_info.is_error = node_verdict.is_error

(***************************************************************************)
(* Issue elapsed time: claims.                                             *)
(***************************************************************************)
\* C21: format_duration over the whole seconds s of the duration gives
\* "just now" for s < 0, "{d}d {h}h" for s >= 86400, "{h}h {m}m" for
\* 3600 <= s < 86400, "{m}m" for 60 <= s < 3600 and "{s}s" for 0 <= s < 60,
\* with d = s div 86400, h = (s mod 86400) div 3600 and m = (s mod 3600) div
\* 60; 90000 gives "1d 1h", 3661 "1h 1m", 45 "45s" and -5 "just now".
C21_FormatDurationBuckets ==
    formatted.returned =>
        LET sec == NumSeconds(duration)
            d == sec \div 86400
            h == (sec % 86400) \div 3600
            m == (sec % 3600) \div 60
        IN  /\ sec < 0 => formatted.result = "just now"
            /\ sec >= 86400 =>
                    formatted.result = ToString(d) \o "d " \o ToString(h) \o "h"
            /\ (3600 <= sec /\ sec < 86400) =>
                    /\ h = sec \div 3600
                    /\ formatted.result = ToString(h) \o "h " \o ToString(m) \o "m"
            /\ (60 <= sec /\ sec < 3600) => formatted.result = ToString(m) \o "m"
            /\ (0 <= sec /\ sec < 60) => formatted.result = ToString(sec) \o "s"
            /\ sec = 90000 => formatted.result = "1d 1h"
            /\ sec = 3661 => formatted.result = "1h 1m"
            /\ sec = 45 => formatted.result = "45s"
            /\ sec = -5 => formatted.result = "just now"

\* C21 witness: 90000 seconds were formatted as "1d 1h".
C21_Witness ==
    /\ formatted.returned
    /\ duration = 90000 * 1000
    /\ formatted.result = "1d 1h"

\* The two timestamp fields of the source record.
StartedAt ==
    IF app_status.operation_state.some
    THEN app_status.operation_state.val.started_at ELSE None
ReconciledAt == app_status.reconciled_at

\* The optional timestamp is present and parses as RFC 3339.
Parses(ts) == ts.some /\ parse_from_rfc3339(ts.val).ok

\* The elapsed time from the timestamp ts to now, formatted.
ElapsedSince(ts) == format_duration(1000 * (utc_now - parse_from_rfc3339(ts).val))

\* C22 as stated: error_duration is None if and only if neither timestamp
\* field (operation start, reconciled-at) was present on the source record.
C22_DurationNoneIffNoTimestamp ==
    error_times.returned =>
        (error_times.error_duration = None
            <=> (~StartedAt.some /\ ~ReconciledAt.some))

\* C22 as amended: error_since is None if and only if neither timestamp field
\* was present on the source record, and error_duration is None if and only
\* if error_since is None or the timestamp it carries does not parse as
\* RFC 3339.
C22_SinceNoneIffNoTimestamp ==
    error_times.returned =>
        /\ error_times.error_since = None
                <=> (~StartedAt.some /\ ~ReconciledAt.some)
        /\ error_times.error_duration = None
                <=> ~Parses(error_times.error_since)

\* C22 witness: the only timestamp present, the operation start, is no
\* RFC 3339 timestamp; it is surfaced as error_since without a duration.
C22_Witness ==
    /\ error_times.returned
    /\ StartedAt = Some("yesterday")
    /\ ReconciledAt = None
    /\ error_times.error_since = Some("yesterday")
    /\ error_times.error_duration = None

\* C25 as stated: the duration is computed from the first of operation start
\* and reconciled-at that is present and parseable, operation start
\* preferred, so from reconciled-at when the operation start is present but
\* does not parse; it is None only if neither parses, and error_since then
\* still carries a raw timestamp when one is present.
C25_FirstParseableTimestamp ==
    error_times.returned =>
        LET first == IF Parses(StartedAt) THEN StartedAt
                     ELSE IF Parses(ReconciledAt) THEN ReconciledAt
                     ELSE None
        IN  IF first.some
            THEN error_times.error_duration = Some(ElapsedSince(first.val))
            ELSE /\ error_times.error_duration = None
                 /\ (StartedAt.some \/ ReconciledAt.some)
                        => error_times.error_since.some

(***************************************************************************)
(* Report aggregator: summary, termination and fan-out.                    *)
(***************************************************************************)
\* C23: the summary of a returned report is derived from the snapshots held
\* in that same report and from nothing else: each count equals the
\* corresponding field of the report's own snapshot (the alert counts are 0
\* when alerts is None), and so equals the field of what the provider
\* returned, whatever order the providers answered in: identical provider
\* outputs give identical counts.
C23_SummaryFromSnapshots ==
    (Returned /\ report.result.ok) =>
        LET rep == report.result.val
            sm == rep.summary
        IN  /\ sm.total_nodes = rep.nodes.total_nodes
            /\ sm.ready_nodes = rep.nodes.ready_nodes
            /\ sm.total_apps = rep.argocd_apps.total
            /\ sm.healthy_apps = rep.argocd_apps.healthy
            /\ sm.unhealthy_apps = rep.argocd_apps.unhealthy
            /\ sm.total_alerts = (IF rep.alerts = None THEN 0 ELSE rep.alerts.val.total)
            /\ sm.critical_alerts =
                    (IF rep.alerts = None THEN 0 ELSE Len(rep.alerts.val.critical))
            /\ sm.warning_alerts =
                    (IF rep.alerts = None THEN 0 ELSE Len(rep.alerts.val.warning))
            /\ sm.total_events = rep.events.total_events
            /\ sm.warning_events = rep.events.warning_count
            /\ sm.total_pvcs = rep.storage.pvc_count
            /\ sm.total_nodes = ResultOf("nodes").val.total_nodes
            /\ sm.total_apps = ResultOf("argocd").val.total
            /\ sm.total_events = ResultOf("events").val.total_events
            /\ sm.total_pvcs = ResultOf("storage").val.pvc_count
            /\ ResultOf("alerts").ok => sm.total_alerts = ResultOf("alerts").val.total

\* C23 witness: a report whose alert snapshot counts one critical, one
\* warning and one info alert has total_alerts 3, critical_alerts 1 and
\* warning_alerts 1 in its summary.
C23_Witness ==
    /\ Returned /\ report.result.ok
    /\ report.result.val.alerts.some
    /\ Len(report.result.val.alerts.val.critical) = 1
    /\ Len(report.result.val.alerts.val.warning) = 1
    /\ report.result.val.alerts.val.total = 3
    /\ report.result.val.summary.total_alerts = 3
    /\ report.result.val.summary.critical_alerts = 1
    /\ report.result.val.summary.warning_alerts = 1

\* C24 as stated: every provider call is bounded by a timeout, so a
\* generate_report() that has been called eventually returns a report or an
\* error even when one source never answers.
C24_ReportTerminates == (rpc = "joining") ~> (rpc = "done")

\* C26: while generate_report() waits, every one of the six calls has been
\* started (none waits for another to finish), and once it has returned a
\* report or an error every one of the six calls has completed, also when a
\* required source failed.
C26_FanOutJoinAll ==
    /\ rpc = "joining" => \A p \in Providers : results[p].state \in {"pending", "ready"}
    /\ report.returned =>
            /\ rpc = "done"
            /\ \A p \in Providers : results[p].state = "ready"

\* C26 witness: the nodes source failed, the other five calls all ran to
\* completion and succeeded, and the error returned is the nodes one.
C26_Witness ==
    /\ Returned
    /\ ResultOf("nodes") = Err("timeout")
    /\ \A p \in Providers \ {"nodes"} :
            results[p].state = "ready" /\ ResultOf(p).ok
    /\ report.result = Err("Failed to get nodes: timeout")

(***************************************************************************)
(* Notification session: what the timers and the polls leave alone.        *)
(***************************************************************************)
\* A step in which the alert closure runs: the alert timer of an Active
\* session is re-armed.
AlertCheckRuns == status = "Active" /\ alert_due' = alert_due + ALERT_CHECK_INTERVAL

\* A step in which a spawned stats or alert poll finishes.
PollFinishes == tasks'.stats < tasks.stats \/ tasks'.alerts < tasks.alerts

\* A step in which a queued SendNotification is delivered to the actor and
\* written out.
NotificationDelivered ==
    Len(mailbox) > 0 /\ outbox' = Append(outbox, Head(mailbox).type)

\* C27: the liveness timestamp changes only in a step that handles a protocol
\* ping or pong; the heartbeat tick, the alert tick, a stats or alert poll
\* finishing and the delivery of a SendNotification leave it unchanged, and
\* the heartbeat tick leaves the last-known counts unchanged.
C27_HbOnlyByLiveness ==
    [][/\ hb' # hb => (pongs' = pongs + 1 \/ pings' = pings - 1)
       /\ HeartbeatCheckRuns => (hb' = hb /\ last_counts' = last_counts)
       /\ AlertCheckRuns => hb' = hb
       /\ PollFinishes => hb' = hb
       /\ NotificationDelivered => hb' = hb]_vars

\* C27 witness: at the alert tick the heartbeat tick has run too, the alert
\* poll has finished and its alert has been delivered, and the liveness
\* timestamp is still the instant of the client's last pong, before all that.
C27_Witness ==
    /\ status = "Active"
    /\ now >= ALERT_CHECK_INTERVAL
    /\ hb_due = now + HEARTBEAT_INTERVAL
    /\ alert_due = now + ALERT_CHECK_INTERVAL
    /\ tasks.alerts = 0
    /\ Written("alert") = 1
    /\ hb > 0 /\ hb < now

(***************************************************************************)
(* Spawned polls: claims.                                                  *)
(***************************************************************************)
\* The count a source contributes to a StatsUpdate: its value, or 0 when the
\* source failed.
Contribution(r) == IF r.ok THEN r.val ELSE 0

\* C28: a stats poll always sends exactly one StatsUpdate, whichever of its
\* three sources failed, all three included; each count of it is the value
\* of its own source's snapshot, or 0 when that source failed, whatever the
\* other two sources returned.
C28_StatsSourcesIndependent ==
    stats_sent.returned =>
        /\ Len(stats_sent.sent) = 1
        /\ stats_sent.sent[1].type = "stats_update"
        /\ stats_sent.sent[1].argocd_issues = Contribution(poll_in.argocd)
        /\ stats_sent.sent[1].error_pods = Contribution(poll_in.pods)
        /\ stats_sent.sent[1].warning_events = Contribution(poll_in.events)

\* C28 witness: the pod source failed and the other two did not; the
\* StatsUpdate carries their counts and 0 error pods.
C28_Witness ==
    /\ stats_sent.returned
    /\ poll_in.argocd = Ok(2)
    /\ ~poll_in.pods.ok
    /\ poll_in.events = Ok(1)
    /\ stats_sent.sent = <<StatsUpdate(2, 0, 1)>>

\* The source succeeded with a positive count.
Positive(r) == r.ok /\ r.val > 0

\* C29: an alert poll sends at most one Alert; when the unhealthy-application
\* count and the error-pod count are both positive it is the argocd one, of
\* severity warning, and the pods alert is dropped; the pods alert, of
\* severity error, is sent only when the application count is not positive
\* or its source failed; with neither count positive nothing is sent,
\* whatever the events source returned.
C29_AtMostOneAlertArgocdFirst ==
    alerts_sent.returned =>
        /\ Len(alerts_sent.sent) <= 1
        /\ \A k \in 1..Len(alerts_sent.sent) : alerts_sent.sent[k].type = "alert"
        /\ Positive(poll_in.argocd) =>
                /\ Len(alerts_sent.sent) = 1
                /\ alerts_sent.sent[1].source = "argocd"
                /\ alerts_sent.sent[1].severity = "warning"
                /\ alerts_sent.sent[1].message =
                        ToString(poll_in.argocd.val) \o " applications need attention"
        /\ (~Positive(poll_in.argocd) /\ Positive(poll_in.pods)) =>
                /\ Len(alerts_sent.sent) = 1
                /\ alerts_sent.sent[1].source = "pods"
                /\ alerts_sent.sent[1].severity = "error"
        /\ (~Positive(poll_in.argocd) /\ ~Positive(poll_in.pods)) =>
                alerts_sent.sent = <<>>

\* C29 witness: two unhealthy applications, one pod in error and a warning
\* event: the only Alert sent is the argocd one.
C29_Witness ==
    /\ alerts_sent.returned
    /\ poll_in.argocd = Ok(2)
    /\ poll_in.pods = Ok(1)
    /\ poll_in.events = Ok(1)
    /\ Len(alerts_sent.sent) = 1
    /\ alerts_sent.sent[1].source = "argocd"

(***************************************************************************)
(* Telemetry event queue: claims.                                          *)
(***************************************************************************)
\* The mutex thread t is about to take, 0 if none, and who holds it.
WantsConfig(t) == tpc[t] \in {"lock_config", "batch_size", "flush_events"}
WantsQueue(t) == tpc[t] \in {"lock_queue", "drain"}
BlockedOn(t) ==
    IF WantsConfig(t) THEN config_lock
    ELSE IF WantsQueue(t) THEN queue_lock
    ELSE 0

\* Some threads wait for each other (or for themselves) in a cycle.
Deadlocked ==
    \E t \in Threads :
        /\ BlockedOn(t) # 0
        /\ \/ BlockedOn(t) = t
           \/ BlockedOn(BlockedOn(t)) \in {t, BlockedOn(t)}
           \/ /\ BlockedOn(BlockedOn(t)) # 0
              /\ BlockedOn(BlockedOn(BlockedOn(t))) \in
                    {t, BlockedOn(t), BlockedOn(BlockedOn(t))}

\* The events of every batch handed to flush_events so far, batch by batch.
RECURSIVE Flushed(_)
Flushed(k) == IF k = 0 THEN <<>> ELSE Flushed(k - 1) \o batches[k].events

\* C30: whenever the EVENT_QUEUE mutex is free the queue holds fewer than
\* batch_size events; no event is in more than one of the batches handed to
\* flush_events, nor in a batch and still in the queue; with telemetry
\* disabled no event is ever queued or flushed; and no threads wait for each
\* other's mutex in a cycle.
C30_QueueBoundedFlushedOnce ==
    /\ queue_lock = 0 => Len(event_queue) < BATCH_SIZE
    /\ LET handed == Flushed(Len(batches)) \o event_queue
       IN  \A i, j \in 1..Len(handed) : handed[i] = handed[j] => i = j
    /\ ~tel_enabled => (event_queue = <<>> /\ batches = <<>> /\ pushed = 0)
    /\ ~Deadlocked

\* C30 witness: the tenth event filled the queue and was flushed with the
\* nine before it in one spawned batch; an eleventh is queued.
C30_Witness ==
    /\ tel_enabled
    /\ queue_lock = 0
    /\ Len(batches) = 1
    /\ Len(batches[1].events) = BATCH_SIZE
    /\ batches[1].by = 0
    /\ event_queue = <<BATCH_SIZE + 1>>

====
